---- MODULE Spec2Model ----
(***************************************************************************)
(* A model of doc-organizer: the DocumentationOrganizer engine of          *)
(* src/src/organizer.ts (and its JavaScript twin src/doc-organizer.js),    *)
(* and the apply_organization tool of the MCP server.                      *)
(*                                                                         *)
(* Strings are TLA+ strings; a character is a string of length 1.          *)
(* Confidences and thresholds are counted in hundredths of a percent (0.9  *)
(* is Pct(90) = 9000), so that a floating-point sum that falls one unit in *)
(* the last place beside a percentage is a number of the model.            *)
(***************************************************************************)
EXTENDS Integers, Sequences, FiniteSets, TLC

VARIABLES
    config,        \* DocumentationOrganizer.config (merged, later adjusted)
    suggestions,   \* DocumentationOrganizer.suggestions
    errors,        \* DocumentationOrganizer.errors
    fs,            \* the file system below the working directory
    renames,       \* history: every try block of a move loop, in order
    lastRun,       \* history: what the last generateSuggestions call did
    lastApply,     \* history: what applyMoves did, if called since the last run
                   \* (list: this.suggestions when it was called)
    lastTool,      \* history: what the last apply_organization call did
    aiClassifier,  \* DocumentationOrganizer.aiClassifier and its client
    ops,           \* number of operations performed so far
    probe          \* inputs and result of a pure function under test

vars == <<config, suggestions, errors, fs, renames, lastRun, lastApply, lastTool,
         aiClassifier, ops, probe>>

(***************************************************************************)
(* Bounds of the model.                                                    *)
(***************************************************************************)
MaxOps == 3
MaxDirLen == 4

(***************************************************************************)
(* JavaScript values.                                                      *)
(***************************************************************************)
Null == "<null>"
Falsy(v) == v = Null \/ v = ""

Min(a, b) == IF a <= b THEN a ELSE b

Pct(n) == n * 100

(***************************************************************************)
(* String primitives (String.prototype).                                   *)
(***************************************************************************)
CharAt(s, i) == SubSeq(s, i, i)

Substring(s, from, to) ==
    \* s.substring(from, to) with 0-based from, exclusive to
    SubSeq(s, from + 1, Min(to, Len(s)))

StartsWithAt(s, p, i) ==
    \* p occurs in s at the 1-based index i
    /\ i >= 1
    /\ i + Len(p) - 1 <= Len(s)
    /\ SubSeq(s, i, i + Len(p) - 1) = p

StartsWith(s, p) == StartsWithAt(s, p, 1)

EndsWith(s, p) == StartsWithAt(s, p, Len(s) - Len(p) + 1)

IndexOfFrom(s, p, i) ==
    \* the first 1-based index >= i at which p occurs in s, 0 if none
    LET at == {j \in i..(Len(s) - Len(p) + 1) : StartsWithAt(s, p, j)} IN
    IF at = {} THEN 0 ELSE CHOOSE j \in at : \A k \in at : j <= k

Includes(s, p) == IndexOfFrom(s, p, 1) # 0

LastIndexOfChar(s, c, i) ==
    \* the last 1-based index <= i at which the character c occurs, 0 if none
    LET at == {j \in 1..i : CharAt(s, j) = c} IN
    IF at = {} THEN 0 ELSE CHOOSE j \in at : \A k \in at : j >= k

ReplaceFirst(s, p, r) ==
    \* s.replace(p, r) with a string pattern: the first occurrence only
    LET i == IndexOfFrom(s, p, 1) IN
    IF i = 0 THEN s
    ELSE SubSeq(s, 1, i - 1) \o r \o SubSeq(s, i + Len(p), Len(s))

StripLeadingDotSlash(s) ==
    \* s.replace(/^\.\//, '')
    IF StartsWith(s, "./") THEN SubSeq(s, 3, Len(s)) ELSE s

UpperToLower ==
    [c \in {"A","B","C","D","E","F","G","H","I","J","K","L","M",
            "N","O","P","Q","R","S","T","U","V","W","X","Y","Z"} |->
        CASE c = "A" -> "a" [] c = "B" -> "b" [] c = "C" -> "c" [] c = "D" -> "d"
          [] c = "E" -> "e" [] c = "F" -> "f" [] c = "G" -> "g" [] c = "H" -> "h"
          [] c = "I" -> "i" [] c = "J" -> "j" [] c = "K" -> "k" [] c = "L" -> "l"
          [] c = "M" -> "m" [] c = "N" -> "n" [] c = "O" -> "o" [] c = "P" -> "p"
          [] c = "Q" -> "q" [] c = "R" -> "r" [] c = "S" -> "s" [] c = "T" -> "t"
          [] c = "U" -> "u" [] c = "V" -> "v" [] c = "W" -> "w" [] c = "X" -> "x"
          [] c = "Y" -> "y" [] c = "Z" -> "z"]

RECURSIVE ToLower(_)
ToLower(s) ==
    \* s.toLowerCase(), half by half
    IF Len(s) = 0 THEN ""
    ELSE IF Len(s) = 1
         THEN (IF s \in DOMAIN UpperToLower THEN UpperToLower[s] ELSE s)
    ELSE LET h == Len(s) \div 2 IN
         ToLower(SubSeq(s, 1, h)) \o ToLower(SubSeq(s, h + 1, Len(s)))

RECURSIVE Repeat(_, _)
Repeat(s, n) ==
    \* s.repeat(n)
    IF n = 0 THEN ""
    ELSE IF n % 2 = 0 THEN LET h == Repeat(s, n \div 2) IN h \o h
    ELSE s \o Repeat(s, n - 1)

(***************************************************************************)
(* Node's path module (POSIX).                                             *)
(***************************************************************************)
RECURSIVE StripTrailingSlashes(_)
StripTrailingSlashes(p) ==
    IF Len(p) > 1 /\ EndsWith(p, "/")
    THEN StripTrailingSlashes(SubSeq(p, 1, Len(p) - 1))
    ELSE p

PathDirname(p) ==
    LET q == StripTrailingSlashes(p)
        i == LastIndexOfChar(q, "/", Len(q))
    IN  IF i = 0 THEN "."
        ELSE IF i = 1 THEN "/"
        ELSE SubSeq(q, 1, i - 1)

PathBasename(p) ==
    LET q == StripTrailingSlashes(p)
        i == LastIndexOfChar(q, "/", Len(q))
    IN  SubSeq(q, i + 1, Len(q))

PathBasenameExt(p, ext) ==
    \* path.basename(p, ext)
    LET b == PathBasename(p) IN
    IF b # ext /\ EndsWith(b, ext) THEN SubSeq(b, 1, Len(b) - Len(ext)) ELSE b

PathExtname(p) ==
    LET b == PathBasename(p)
        i == LastIndexOfChar(b, ".", Len(b))
    IN  IF i <= 1 THEN "" ELSE SubSeq(b, i, Len(b))

PathJoin(dir, item) ==
    \* path.join(dir, item) for a directory of the walk and an entry name
    IF dir = "." THEN item ELSE dir \o "/" \o item

(***************************************************************************)
(* Objects with string keys: a sequence of [key, value] in insertion       *)
(* order, which is the order of Object.entries.                            *)
(***************************************************************************)
HasKey(obj, k) == \E i \in 1..Len(obj) : obj[i].key = k

GetKey(obj, k) ==
    obj[CHOOSE i \in 1..Len(obj) : obj[i].key = k].value

SetKey(obj, k, v) ==
    \* obj[k] = v: an existing key keeps its position, a new key goes last
    IF HasKey(obj, k)
    THEN [i \in 1..Len(obj) |-> IF obj[i].key = k THEN [key |-> k, value |-> v] ELSE obj[i]]
    ELSE Append(obj, [key |-> k, value |-> v])

RECURSIVE Spread(_, _)
Spread(a, b) ==
    \* { ...a, ...b }
    IF Len(b) = 0 THEN a
    ELSE Spread(SetKey(a, b[1].key, b[1].value), Tail(b))

KV(k, v) == [key |-> k, value |-> v]

SeqIncludes(seq, x) == \E i \in 1..Len(seq) : seq[i] = x

(***************************************************************************)
(* Regular expressions.  Every pattern of the program has the shape        *)
(* /^(alt|alt|...)/i where an alternative is a list of literal segments     *)
(* separated by '.*', with or without a leading '.*'.  The flag i makes    *)
(* the case of a literal irrelevant: an alternative keeps its segments in  *)
(* lower case and is matched against the lower-cased subject.             *)
(***************************************************************************)
LowerAll(segs) == [j \in 1..Len(segs) |-> ToLower(segs[j])]

Lit(segs) == [lead |-> FALSE, segs |-> LowerAll(segs)]
Dots(segs) == [lead |-> TRUE, segs |-> LowerAll(segs)]

LineTerminators == {"\n", "\r"}

FirstLineEnd(s) ==
    \* the length of the prefix of s before its first line terminator
    LET at == {j \in 1..Len(s) : CharAt(s, j) \in LineTerminators} IN
    IF at = {} THEN Len(s) ELSE (CHOOSE j \in at : \A k \in at : j <= k) - 1

RECURSIVE MatchSegs(_, _, _, _)
MatchSegs(line, segs, k, pos) ==
    \* segments k.. occur in this order at or after pos ('.' matches any
    \* character of the line, so the earliest occurrence is the best)
    IF k > Len(segs) THEN TRUE
    ELSE LET i == IndexOfFrom(line, segs[k], pos) IN
         IF i = 0 THEN FALSE
         ELSE MatchSegs(line, segs, k + 1, i + Len(segs[k]))

MatchAlt(line, alt) ==
    IF alt.lead THEN MatchSegs(line, alt.segs, 1, 1)
    ELSE /\ StartsWith(line, alt.segs[1])
         /\ MatchSegs(line, alt.segs, 2, 1 + Len(alt.segs[1]))

RegExpTest(pattern, s) ==
    \* pattern.test(s) for /^(...)/i: '.' does not cross a line terminator,
    \* so a match lies within the first line of s
    LET line == ToLower(SubSeq(s, 1, FirstLineEnd(s))) IN
    \E a \in 1..Len(pattern) : MatchAlt(line, pattern[a])

(***************************************************************************)
(* Configuration.                                                          *)
(***************************************************************************)
DefaultPatterns ==
    << KV("aiInstructions",
          << Lit(<<"CLAUDE">>), Lit(<<"CURSOR">>), Lit(<<"ai-">>), Lit(<<"assistant-">>),
             Lit(<<"development-guidelines">>), Lit(<<"coding-standards">>) >>),
       KV("architecture",
          << Lit(<<"architecture">>), Lit(<<"system-design">>), Lit(<<"api-spec">>),
             Lit(<<"tech-stack">>), Lit(<<"design-doc">>) >>),
       KV("features",
          << Lit(<<"feature-">>), Lit(<<"prd-">>), Lit(<<"spec-">>),
             Lit(<<"functionality-">>), Lit(<<"user-story">>) >>),
       KV("maintenance",
          << Lit(<<"refactor">>), Lit(<<"troubleshoot">>), Lit(<<"deploy">>),
             Lit(<<"maintenance">>), Lit(<<"operation">>), Dots(<<"audit">>),
             Dots(<<"testing", "guide">>), Lit(<<"mobile", "testing">>),
             Lit(<<"cleanup", "summary">>), Dots(<<"organization", "rules">>),
             Lit(<<"markdown", "organization">>), Lit(<<"devops">>), Lit(<<"ops-">>) >>),
       KV("setup",
          << Lit(<<"setup">>), Lit(<<"getting-started">>), Lit(<<"project-overview">>),
             Lit(<<"configuration">>), Lit(<<"install">>), Lit(<<"onboard">>),
             Lit(<<"quickstart">>) >>),
       KV("guides",
          << Dots(<<"guide">>), Lit(<<"tutorial">>), Lit(<<"demo", "guide">>),
             Lit(<<"how-to">>), Lit(<<"walkthrough">>) >>),
       KV("audits",
          << Dots(<<"audit">>), Dots(<<"report">>), Lit(<<"analysis">>), Lit(<<"review">>) >>),
       KV("specs",
          << Lit(<<"spec">>), Lit(<<"requirement">>), Lit(<<"collapsible">>),
             Lit(<<"sidebar", "spec">>), Lit(<<"rfc">>) >>),
       KV("api",
          << Lit(<<"api-">>), Lit(<<"endpoint">>), Lit(<<"swagger">>), Lit(<<"openapi">>) >>),
       KV("testing",
          << Lit(<<"test-">>), Lit(<<"testing">>), Lit(<<"qa">>), Lit(<<"quality">>) >>) >>

DefaultDestinations ==
    << KV("aiInstructions", "{aiDocs}/setup/"),
       KV("architecture", "{aiDocs}/architecture/"),
       KV("features", "{aiDocs}/features/"),
       KV("maintenance", "{aiDocs}/maintenance/"),
       KV("setup", "{aiDocs}/setup/"),
       KV("guides", "{root}"),
       KV("audits", "{root}"),
       KV("specs", "{specs}/"),
       KV("api", "{aiDocs}/architecture/"),
       KV("testing", "{aiDocs}/maintenance/") >>

DefaultProtectedFiles ==
    << "README.md", "CHANGELOG.md", "LICENSE.md", "CONTRIBUTING.md", "CODE_OF_CONDUCT.md" >>

DefaultExcludePatterns ==
    << "node_modules", ".git", ".next", "dist", "build", "__pycache__", ".venv" >>

ContentHeaderLen == 200

getDefaultConfig(impl) ==
    [ projectType |-> "web-app",
      structure |-> << KV("aiDocs", "ai_docs"), KV("specs", "specs"), KV("root", "./") >>,
      patterns |-> DefaultPatterns,
      destinations |-> DefaultDestinations,
      protectedFiles |-> DefaultProtectedFiles,
      thresholds |->
          IF impl = "ts"
          THEN << KV("autoApply", Pct(80)), KV("suggest", Pct(70)),
                  KV("filename", Pct(90)), KV("content", Pct(50)),
                  KV("aiConfidence", Pct(70)) >>
          ELSE << KV("autoApply", Pct(80)), KV("suggest", Pct(70)),
                  KV("filename", Pct(90)), KV("content", Pct(50)) >>,
      excludePatterns |-> DefaultExcludePatterns,
      \* the JavaScript organizer has no ai section
      ai |-> IF impl = "ts"
             THEN << KV("enabled", FALSE), KV("model", "claude-sonnet-4-20250514"),
                     KV("fallbackThreshold", Pct(80)), KV("maxTokens", 500) >>
             ELSE <<>> ]

\* A user configuration: every field is present; an absent field of the
\* JavaScript object is the empty object, the empty list or the empty string.
EmptyUserConfig ==
    [ projectType |-> "", structure |-> <<>>, patterns |-> <<>>, destinations |-> <<>>,
      protectedFiles |-> <<>>, thresholds |-> <<>>,
      excludePatterns |-> [present |-> FALSE, value |-> <<>>],
      ai |-> <<>>, useAI |-> FALSE ]

mergeWithDefaults(userConfig, impl) ==
    LET defaults == getDefaultConfig(impl) IN
    [ projectType |-> IF Falsy(userConfig.projectType) THEN defaults.projectType
                      ELSE userConfig.projectType,
      structure |-> Spread(defaults.structure, userConfig.structure),
      \* every user pattern is assigned onto a copy of the default patterns
      \* (a string pattern becomes new RegExp(pattern, 'i'))
      patterns |-> Spread(defaults.patterns, userConfig.patterns),
      destinations |-> Spread(defaults.destinations, userConfig.destinations),
      thresholds |-> Spread(defaults.thresholds, userConfig.thresholds),
      protectedFiles |-> defaults.protectedFiles \o userConfig.protectedFiles,
      excludePatterns |-> IF userConfig.excludePatterns.present
                          THEN userConfig.excludePatterns.value
                          ELSE defaults.excludePatterns,
      ai |-> IF impl = "ts" THEN Spread(defaults.ai, userConfig.ai) ELSE defaults.ai ]

resolveDestination(cfg, destination) ==
    ReplaceFirst(
        ReplaceFirst(
            ReplaceFirst(destination, "{aiDocs}", GetKey(cfg.structure, "aiDocs")),
            "{specs}", GetKey(cfg.structure, "specs")),
        "{root}", GetKey(cfg.structure, "root"))

adjustForProjectType(cfg) ==
    CASE cfg.projectType = "library" ->
            [cfg EXCEPT !.protectedFiles = @ \o <<"API.md", "USAGE.md">>,
                        !.patterns = SetKey(@, "api",
                            << Lit(<<"api">>), Lit(<<"usage">>), Lit(<<"reference">>) >>)]
      [] cfg.projectType = "data-science" ->
            [cfg EXCEPT !.protectedFiles = @ \o <<"METHODOLOGY.md", "DATA.md">>,
                        !.patterns = SetKey(@, "analysis",
                            << Lit(<<"analysis">>), Lit(<<"model">>), Lit(<<"dataset">>),
                               Lit(<<"experiment">>) >>),
                        !.destinations = SetKey(@, "analysis", "{aiDocs}/analysis/")]
      [] cfg.projectType = "mobile" ->
            [cfg EXCEPT !.protectedFiles = @ \o <<"DEPLOYMENT.md", "STORE.md">>,
                        !.patterns = SetKey(@, "deployment",
                            << Lit(<<"deploy">>), Lit(<<"store">>), Lit(<<"release">>),
                               Lit(<<"build">>) >>)]
      [] cfg.projectType = "api" ->
            [cfg EXCEPT !.protectedFiles = @ \o <<"ENDPOINTS.md", "SCHEMAS.md">>,
                        !.patterns = SetKey(@, "endpoints",
                            << Lit(<<"endpoint">>), Lit(<<"route">>), Lit(<<"schema">>),
                               Lit(<<"model">>) >>)]
      [] OTHER -> cfg

(***************************************************************************)
(* Classification: analyzeFileContent.                                     *)
(***************************************************************************)
isProtectedByDefault(cfg, filePath) ==
    \* a protected check that knows the default protected files only
    \/ SeqIncludes(DefaultProtectedFiles, filePath)
    \/ SeqIncludes(DefaultProtectedFiles, PathBasename(filePath))

isProtected(cfg, filePath) ==
    \/ SeqIncludes(cfg.protectedFiles, filePath)
    \/ SeqIncludes(cfg.protectedFiles, PathBasename(filePath))

\* The value returned for "no analysis" (return null).
NullAnalysis(filePath, err) ==
    [ isNull |-> TRUE, error |-> err, fileName |-> Null, currentPath |-> filePath,
      currentDir |-> Null, contentLength |-> 0, suggestedCategory |-> Null,
      suggestedPath |-> Null, confidence |-> 0, reasons |-> <<>>,
      aiEnhanced |-> FALSE ]

\* this.config.destinations[category] || '{root}' (TypeScript);
\* this.config.destinations[category] (JavaScript), which may be undefined.
destinationTemplate(cfg, category, impl) ==
    IF HasKey(cfg.destinations, category) /\ ~Falsy(GetKey(cfg.destinations, category))
    THEN GetKey(cfg.destinations, category)
    ELSE IF impl = "ts" THEN "{root}"
    ELSE IF HasKey(cfg.destinations, category) THEN "" ELSE Null

RECURSIVE filenameScanLast(_, _, _)
filenameScanLast(patterns, fileName, i) ==
    \* a filename loop without the break: the last accepting rule wins
    IF i > Len(patterns) THEN 0
    ELSE LET later == filenameScanLast(patterns, fileName, i + 1) IN
         IF later # 0 THEN later
         ELSE IF RegExpTest(patterns[i].value, fileName) THEN i
         ELSE 0

RECURSIVE filenameScan(_, _, _)
filenameScan(patterns, fileName, i) ==
    \* the index of the rule at which the filename loop breaks, 0 if it ends
    IF i > Len(patterns) THEN 0
    ELSE IF RegExpTest(patterns[i].value, fileName) THEN i
    ELSE filenameScan(patterns, fileName, i + 1)

RECURSIVE contentScanAnyCategory(_, _, _)
contentScanAnyCategory(patterns, header, i) ==
    \* a content loop that does not skip the aiInstructions category
    IF i > Len(patterns) THEN 0
    ELSE IF RegExpTest(patterns[i].value, header) THEN i
    ELSE contentScanAnyCategory(patterns, header, i + 1)

RECURSIVE contentScan(_, _, _)
contentScan(patterns, contentHeader, i) ==
    \* the index of the rule at which the content loop breaks, 0 if it ends
    IF i > Len(patterns) THEN 0
    ELSE IF RegExpTest(patterns[i].value, contentHeader) /\ patterns[i].key # "aiInstructions"
         THEN i
    ELSE contentScan(patterns, contentHeader, i + 1)

contentWhole(content) == content

contentHeader(content) == Substring(content, 0, ContentHeaderLen)

alwaysContentScan(analysis) == TRUE

\* if (!analysis.suggestedCategory): the content loop runs
needsContentScan(analysis) == Falsy(analysis.suggestedCategory)

\* the analysis object before the loops
newAnalysis(filePath, content) ==
    [ isNull |-> FALSE, error |-> Null, fileName |-> PathBasenameExt(filePath, ".md"),
      currentPath |-> filePath, currentDir |-> PathDirname(filePath),
      contentLength |-> Len(content), suggestedCategory |-> Null,
      suggestedPath |-> Null, confidence |-> 0, reasons |-> <<>>,
      \* aiEnhanced is undefined until the AI path sets it
      aiEnhanced |-> FALSE ]

\* the assignments of a loop at its matching rule; reading the destination
\* of a category without one throws in the JavaScript organizer, which the
\* catch of analyzeFileContent turns into null
setCategory(cfg, analysis, category, template, conf, reason) ==
    IF template = Null
    THEN NullAnalysis(analysis.currentPath, "Error analyzing " \o analysis.currentPath)
    ELSE [analysis EXCEPT !.suggestedCategory = category,
                          !.confidence = conf,
                          !.suggestedPath = resolveDestination(cfg, template)
                                                \o analysis.fileName \o ".md",
                          !.reasons = <<reason>>]

\* the analysis after a loop that stopped at rule i (0: no rule matched)
afterScan(cfg, analysis, i, threshold, reason, impl) ==
    IF i = 0 THEN analysis
    ELSE setCategory(cfg, analysis, cfg.patterns[i].key,
                     destinationTemplate(cfg, cfg.patterns[i].key, impl),
                     GetKey(cfg.thresholds, threshold), reason)

\* the content check on the analysis that the filename loop has left
contentCheck(cfg, content, impl, analysis) ==
    IF analysis.isNull THEN analysis
    ELSE IF ~needsContentScan(analysis) THEN analysis
    ELSE afterScan(cfg, analysis, contentScan(cfg.patterns, contentHeader(content), 1),
                   "content", "content match", impl)

classify(cfg, filePath, content, impl) ==
    \* the body of analyzeFileContent after a successful read
    IF isProtected(cfg, filePath) THEN NullAnalysis(filePath, Null)
    ELSE contentCheck(cfg, content, impl,
             afterScan(cfg, newAnalysis(filePath, content),
                       filenameScan(cfg.patterns, PathBasenameExt(filePath, ".md"), 1),
                       "filename", "filename match", impl))

(***************************************************************************)
(* Placement: isCorrectlyPlaced.                                           *)
(***************************************************************************)
placedDirsNoTrailingSlash(currentDir, expectedDir) ==
    \* placedDirs without the step that appends '/' to a non-root directory
    LET c0 == StripLeadingDotSlash(currentDir)
        e0 == StripLeadingDotSlash(expectedDir)
        normalizedCurrent == IF c0 = "" THEN "." ELSE c0
        normalizedExpected == IF e0 = "" THEN "." ELSE e0
    IN  IF \/ (normalizedCurrent = "." /\ normalizedExpected = "./")
           \/ (normalizedCurrent = "./" /\ normalizedExpected = ".")
        THEN TRUE
        ELSE normalizedCurrent = normalizedExpected

placedDirs(currentDir, expectedDir) ==
    \* the comparison of isCorrectlyPlaced once expectedDir is resolved
    LET c0 == StripLeadingDotSlash(currentDir)
        e0 == StripLeadingDotSlash(expectedDir)
        c1 == IF c0 = "" THEN "." ELSE c0
        e1 == IF e0 = "" THEN "." ELSE e0
        normalizedCurrent == IF c1 # "." /\ ~EndsWith(c1, "/") THEN c1 \o "/" ELSE c1
        normalizedExpected == IF e1 # "." /\ ~EndsWith(e1, "/") THEN e1 \o "/" ELSE e1
    IN  IF \/ (normalizedCurrent = "." /\ normalizedExpected = "./")
           \/ (normalizedCurrent = "./" /\ normalizedExpected = ".")
        THEN TRUE
        ELSE normalizedCurrent = normalizedExpected

isCorrectlyPlaced(cfg, analysis, impl) ==
    IF analysis.isNull \/ Falsy(analysis.suggestedCategory) THEN TRUE
    ELSE placedDirs(analysis.currentDir,
                    resolveDestination(cfg,
                        destinationTemplate(cfg, analysis.suggestedCategory, impl)))

(***************************************************************************)
(* The file system: a sequence of entries, each with its path relative to  *)
(* the working directory.  readdirSync lists the entries of a directory in *)
(* the order of this sequence.                                             *)
(***************************************************************************)
File(path, content) ==
    [ path |-> path, kind |-> "file", content |-> content, readable |-> TRUE,
      statOk |-> TRUE, listable |-> TRUE, locked |-> FALSE ]

Dir(path) ==
    [ path |-> path, kind |-> "dir", content |-> "", readable |-> FALSE,
      statOk |-> TRUE, listable |-> TRUE, locked |-> FALSE ]

RECURSIVE SplitPath(_)
SplitPath(p) ==
    \* p.split('/')
    LET i == IndexOfFrom(p, "/", 1) IN
    IF i = 0 THEN <<p>>
    ELSE <<SubSeq(p, 1, i - 1)>> \o SplitPath(SubSeq(p, i + 1, Len(p)))

RECURSIVE JoinSegments(_)
JoinSegments(segs) ==
    IF Len(segs) = 0 THEN "."
    ELSE IF Len(segs) = 1 THEN segs[1]
    ELSE segs[1] \o "/" \o JoinSegments(Tail(segs))

PathSegments(p) == SelectSeq(SplitPath(p), LAMBDA x : x # "" /\ x # ".")

\* the entry path that the operating system resolves a relative path to
ResolvePath(p) == JoinSegments(PathSegments(p))

EntryIndex(fsys, path) ==
    IF \E i \in 1..Len(fsys) : fsys[i].path = path
    THEN CHOOSE i \in 1..Len(fsys) : fsys[i].path = path
    ELSE 0

IsDirectory(fsys, path) ==
    path = "." \/ \E i \in 1..Len(fsys) : fsys[i].path = path /\ fsys[i].kind = "dir"

existsSync(fsys, p) ==
    ResolvePath(p) = "." \/ EntryIndex(fsys, ResolvePath(p)) # 0

RECURSIVE mkdirSegments(_, _, _)
mkdirSegments(fsys, segs, k) ==
    \* fs.mkdirSync(dir, { recursive: true }), one ancestor after the other
    IF k > Len(segs) THEN [ok |-> TRUE, fs |-> fsys]
    ELSE LET dir == JoinSegments(SubSeq(segs, 1, k)) IN
         IF IsDirectory(fsys, dir) THEN mkdirSegments(fsys, segs, k + 1)
         ELSE IF EntryIndex(fsys, dir) # 0 THEN [ok |-> FALSE, fs |-> fsys]
         ELSE mkdirSegments(Append(fsys, Dir(dir)), segs, k + 1)

mkdirSync(fsys, p) == mkdirSegments(fsys, PathSegments(p), 1)

renameSync(fsys, from, to) ==
    \* fs.renameSync: an existing file at the destination is replaced
    LET f == ResolvePath(from)
        t == ResolvePath(to)
        i == EntryIndex(fsys, f)
    IN  IF \/ i = 0
           \/ ~IsDirectory(fsys, PathDirname(t))
           \/ IsDirectory(fsys, t)
        THEN [ok |-> FALSE, fs |-> fsys]
        ELSE IF fsys[i].locked THEN [ok |-> FALSE, fs |-> fsys]
        ELSE IF f = t THEN [ok |-> TRUE, fs |-> fsys]
        ELSE [ok |-> TRUE,
              fs |-> Append(SelectSeq(fsys, LAMBDA e : e.path # f /\ e.path # t),
                            [fsys[i] EXCEPT !.path = t])]

(***************************************************************************)
(* getAllMdFiles.                                                          *)
(***************************************************************************)
isExcluded(cfg, fullPath) ==
    \E k \in 1..Len(cfg.excludePatterns) : Includes(fullPath, cfg.excludePatterns[k])

readdirSync(fsys, dir) == SelectSeq(fsys, LAMBDA e : PathDirname(e.path) = dir)

canList(fsys, dir) ==
    dir = "." \/ \E i \in 1..Len(fsys) : fsys[i].path = dir /\ fsys[i].listable

NoFiles == [files |-> <<>>, errors |-> <<>>]

listFailedSilently(dir) ==
    \* the catch of walkDir without the push onto this.errors
    [files |-> <<>>, errors |-> <<>>]

\* the catch of walkDir when readdirSync throws
listFailed(dir) == [files |-> <<>>, errors |-> <<"Error reading directory " \o dir>>]

RECURSIVE walkItems(_, _, _, _, _, _)
walkItems(fsys, cfg, dir, items, i, acc) ==
    \* the for loop of walkDir; a throwing statSync ends it (catch); a
    \* directory is walked by the recursive call walkDir(fullPath)
    IF i > Len(items) THEN acc
    ELSE LET item == PathBasename(items[i].path)
             fullPath == PathJoin(dir, item)
         IN  IF isExcluded(cfg, fullPath)
             THEN walkItems(fsys, cfg, dir, items, i + 1, acc)
             ELSE IF ~items[i].statOk
             THEN [acc EXCEPT !.errors = Append(@, "Error reading directory " \o dir)]
             ELSE IF items[i].kind = "dir"
             THEN LET sub == IF ~canList(fsys, fullPath) THEN listFailed(fullPath)
                             ELSE walkItems(fsys, cfg, fullPath,
                                            readdirSync(fsys, fullPath), 1, NoFiles)
                  IN  walkItems(fsys, cfg, dir, items, i + 1,
                                [files |-> acc.files \o sub.files,
                                 errors |-> acc.errors \o sub.errors])
             ELSE IF PathExtname(item) = ".md"
             THEN walkItems(fsys, cfg, dir, items, i + 1,
                            [acc EXCEPT !.files = Append(@, fullPath)])
             ELSE walkItems(fsys, cfg, dir, items, i + 1, acc)

walkDir(fsys, cfg, dir) ==
    IF ~canList(fsys, dir) THEN listFailed(dir)
    ELSE walkItems(fsys, cfg, dir, readdirSync(fsys, dir), 1, NoFiles)

getAllMdFiles(fsys, cfg) == walkDir(fsys, cfg, ".")

(***************************************************************************)
(* analyzeFileContent, generateSuggestions.                                *)
(***************************************************************************)
analyzeFileContent(cfg, fsys, filePath, impl) ==
    LET i == EntryIndex(fsys, filePath) IN
    IF i = 0 \/ ~fsys[i].readable \/ fsys[i].kind # "file"
    THEN NullAnalysis(filePath, "Error analyzing " \o filePath)
    ELSE classify(cfg, filePath, fsys[i].content, impl)

isSuggestedByConfidence(cfg, analysis, impl) ==
    \* the condition without the placement test
    analysis.confidence >= GetKey(cfg.thresholds, "suggest")

\* the condition under which generateSuggestions pushes a suggestion
isSuggested(cfg, analysis, impl) ==
    /\ ~isCorrectlyPlaced(cfg, analysis, impl)
    /\ analysis.confidence >= GetKey(cfg.thresholds, "suggest")

toSuggestion(analysis) ==
    [ current |-> analysis.currentPath, suggested |-> analysis.suggestedPath,
      category |-> analysis.suggestedCategory, confidence |-> analysis.confidence,
      reasons |-> analysis.reasons, aiEnhanced |-> analysis.aiEnhanced ]

NoSuggestions == [suggestions |-> <<>>, errors |-> <<>>, analyses |-> <<>>]

\* one iteration of the loop over the enumerated files, on the analysis of
\* the file
suggestStep(cfg, analysis, impl, acc) ==
    IF analysis.isNull
    THEN [acc EXCEPT !.analyses = Append(@, analysis),
                     !.errors = IF analysis.error = Null THEN @
                                ELSE Append(@, analysis.error)]
    ELSE [acc EXCEPT !.analyses = Append(@, analysis),
                     !.suggestions = IF isSuggested(cfg, analysis, impl)
                                     THEN Append(@, toSuggestion(analysis))
                                     ELSE @]

RECURSIVE suggestLoop(_, _, _, _, _, _)
suggestLoop(cfg, fsys, files, i, impl, acc) ==
    \* the loop over the enumerated files
    IF i > Len(files) THEN acc
    ELSE suggestLoop(cfg, fsys, files, i + 1, impl,
             suggestStep(cfg, analyzeFileContent(cfg, fsys, files[i], impl), impl, acc))

\* the new configuration, the enumerated files, what is appended to
\* this.suggestions and to this.errors, and the returned statistics
runResult(cfg, walk, run) ==
    [ config |-> cfg, files |-> walk.files, analyses |-> run.analyses,
      appended |-> run.suggestions, errors |-> walk.errors \o run.errors,
      stats |-> [files |-> Len(walk.files), misplaced |-> Len(run.suggestions)] ]

\* generateSuggestions after adjustForProjectType and getAllMdFiles
suggestFor(cfg, fsys, walk, impl) ==
    runResult(cfg, walk, suggestLoop(cfg, fsys, walk.files, 1, impl, NoSuggestions))

\* generateSuggestions after adjustForProjectType
suggestWith(cfg, fsys, impl) == suggestFor(cfg, fsys, getAllMdFiles(fsys, cfg), impl)

generateSuggestions(cfg0, fsys, impl) ==
    suggestWith(adjustForProjectType(cfg0), fsys, impl)

(***************************************************************************)
(* The AI path: AIClassifier, analyzeFileContentWithAI,                    *)
(* generateSuggestionsWithAI.  The answer of the model to a request is an  *)
(* input of the call.                                                      *)
(***************************************************************************)
AIAnswer(kind, category, confidence) ==
    [kind |-> kind, category |-> category, confidence |-> confidence, reason |-> "because"]

\* the tool_use block of the response, or null
aiClassify(answer, request) ==
    \* no tool_use block in the response; a failed request, caught in classify
    CASE answer.kind \in {"none", "error"} -> [isNull |-> TRUE]
      [] answer.kind = "agree" /\ ~Falsy(request.existingAnalysis.category) ->
            [ isNull |-> FALSE, category |-> request.existingAnalysis.category,
              confidence |-> answer.confidence, reason |-> answer.reason ]
      [] OTHER ->
            [ isNull |-> FALSE, category |-> answer.category,
              confidence |-> answer.confidence, reason |-> answer.reason ]

\* percentages p for which the double p/100 + 0.1 lies one unit in the last
\* place below, and above, the double (p + 10)/100
SumRoundsBelow == {24, 35, 36, 57, 58, 69, 70, 71, 82, 83}
SumRoundsAbove == {2, 5, 11, 14, 19, 20, 31, 32, 33, 34}

boostUncapped(confidence) ==
    \* confidence + 0.1 without Math.min(1, ...)
    LET p == confidence \div 100 IN
    IF confidence % 100 # 0 THEN confidence + Pct(10)
    ELSE IF p \in SumRoundsBelow THEN Pct(p + 10) - 1
    ELSE IF p \in SumRoundsAbove THEN Pct(p + 10) + 1
    ELSE Pct(p + 10)

\* Math.min(1, confidence + 0.1)
boostConfidence(confidence) ==
    LET p == confidence \div 100
        sum == IF confidence % 100 # 0 THEN confidence + Pct(10)
               ELSE IF p \in SumRoundsBelow THEN Pct(p + 10) - 1
               ELSE IF p \in SumRoundsAbove THEN Pct(p + 10) + 1
               ELSE Pct(p + 10)
    IN  Min(Pct(100), sum)

Digit(d) == SubSeq("0123456789", d + 1, d + 1)

RECURSIVE NatToString(_)
NatToString(n) == IF n < 10 THEN Digit(n) ELSE NatToString(n \div 10) \o Digit(n % 10)

\* (confidence * 100).toFixed(0)
toFixed0(confidence) == NatToString((confidence + 50) \div 100)

mergeAnalysisAppending(existingAnalysis, aiResult) ==
    \* the AI reason after the existing reasons in every branch
    IF aiResult.confidence > existingAnalysis.confidence
    THEN [ category |-> aiResult.category, confidence |-> aiResult.confidence,
           reasons |-> Append(existingAnalysis.reasons, "AI: " \o aiResult.reason) ]
    ELSE IF existingAnalysis.category = aiResult.category
    THEN [ category |-> existingAnalysis.category,
           confidence |-> boostConfidence(existingAnalysis.confidence),
           reasons |-> Append(existingAnalysis.reasons,
                              "AI confirmed: " \o aiResult.reason) ]
    ELSE [ category |-> IF Falsy(existingAnalysis.category) THEN aiResult.category
                        ELSE existingAnalysis.category,
           confidence |-> existingAnalysis.confidence,
           reasons |-> Append(existingAnalysis.reasons,
                              "AI suggested " \o aiResult.category \o " (" \o
                              toFixed0(aiResult.confidence) \o "%)") ]

mergeAnalysis(existingAnalysis, aiResult) ==
    IF aiResult.confidence > existingAnalysis.confidence
    THEN [ category |-> aiResult.category, confidence |-> aiResult.confidence,
           reasons |-> <<"AI: " \o aiResult.reason>> \o existingAnalysis.reasons ]
    ELSE IF existingAnalysis.category = aiResult.category
    THEN [ category |-> existingAnalysis.category,
           confidence |-> boostConfidence(existingAnalysis.confidence),
           reasons |-> Append(existingAnalysis.reasons,
                              "AI confirmed: " \o aiResult.reason) ]
    ELSE [ category |-> IF Falsy(existingAnalysis.category) THEN aiResult.category
                        ELSE existingAnalysis.category,
           confidence |-> existingAnalysis.confidence,
           reasons |-> Append(existingAnalysis.reasons,
                              "AI suggested " \o aiResult.category \o " (" \o
                              toFixed0(aiResult.confidence) \o "%)") ]

shouldUseAIAtThreshold(cfg, classifier, analysis) ==
    \* the confidence compared with <= in place of <
    /\ GetKey(cfg.ai, "enabled")
    /\ classifier = "ready"
    /\ analysis.confidence <= GetKey(cfg.ai, "fallbackThreshold")

shouldUseAI(cfg, classifier, analysis) ==
    /\ GetKey(cfg.ai, "enabled")
    /\ classifier = "ready"
    /\ analysis.confidence < GetKey(cfg.ai, "fallbackThreshold")

existingAnalysis(analysis) ==
    [ category |-> analysis.suggestedCategory, confidence |-> analysis.confidence,
      reasons |-> analysis.reasons ]

\* the assignments from the merged analysis
setMerged(cfg, analysis, merged) ==
    [analysis EXCEPT
        !.suggestedCategory = merged.category,
        !.confidence = merged.confidence,
        !.reasons = merged.reasons,
        !.aiEnhanced = TRUE,
        !.suggestedPath =
            IF /\ ~Falsy(merged.category)
               /\ HasKey(cfg.destinations, merged.category)
               /\ ~Falsy(GetKey(cfg.destinations, merged.category))
            THEN resolveDestination(cfg, GetKey(cfg.destinations, merged.category))
                     \o analysis.fileName \o ".md"
            ELSE @]

useResultMarking(cfg, analysis, aiResult) ==
    \* aiEnhanced set whatever the call returned
    IF aiResult.isNull THEN [analysis EXCEPT !.aiEnhanced = TRUE]
    ELSE setMerged(cfg, analysis, mergeAnalysis(existingAnalysis(analysis), aiResult))

\* if (aiResult) { ... }
useResult(cfg, analysis, aiResult) ==
    IF aiResult.isNull THEN analysis
    ELSE setMerged(cfg, analysis, mergeAnalysis(existingAnalysis(analysis), aiResult))

\* analyzeFileContentWithAI on the analysis that analyzeFileContent returned
enhance(cfg, classifier, answer, analysis) ==
    IF analysis.isNull THEN analysis
    ELSE IF ~shouldUseAI(cfg, classifier, analysis) THEN analysis
    ELSE useResult(cfg, analysis,
             aiClassify(answer, [ filePath |-> analysis.currentPath,
                                  existingAnalysis |-> existingAnalysis(analysis) ]))

analyzeFileContentWithAI(cfg, fsys, filePath, classifier, answer) ==
    enhance(cfg, classifier, answer, analyzeFileContent(cfg, fsys, filePath, "ts"))

RECURSIVE suggestLoopWithAI(_, _, _, _, _, _, _)
suggestLoopWithAI(cfg, fsys, files, i, classifier, answer, acc) ==
    \* the loop over the enumerated files
    IF i > Len(files) THEN acc
    ELSE suggestLoopWithAI(cfg, fsys, files, i + 1, classifier, answer,
             suggestStep(cfg,
                 IF GetKey(cfg.ai, "enabled")
                 THEN analyzeFileContentWithAI(cfg, fsys, files[i], classifier, answer)
                 ELSE analyzeFileContent(cfg, fsys, files[i], "ts"),
                 "ts", acc))

\* generateSuggestionsWithAI after adjustForProjectType and getAllMdFiles
suggestForWithAI(cfg, fsys, walk, classifier, answer) ==
    runResult(cfg, walk,
              suggestLoopWithAI(cfg, fsys, walk.files, 1, classifier, answer, NoSuggestions))

\* generateSuggestionsWithAI after adjustForProjectType
suggestWithAI(cfg, fsys, classifier, answer) ==
    suggestForWithAI(cfg, fsys, getAllMdFiles(fsys, cfg), classifier, answer)

generateSuggestionsWithAI(cfg0, fsys, classifier, answer) ==
    suggestWithAI(adjustForProjectType(cfg0), fsys, classifier, answer)

(***************************************************************************)
(* The engine is idle while a pure function is under test, and no pure     *)
(* function is under test while the engine runs.                           *)
(***************************************************************************)
NoProbe == [fn |-> "none"]

NoCall == [called |-> FALSE]

EngineIdle ==
    /\ config = Null
    /\ suggestions = <<>>
    /\ errors = <<>>
    /\ fs = <<>>
    /\ renames = <<>>
    /\ lastRun = NoCall
    /\ lastApply = NoCall
    /\ lastTool = NoCall
    /\ aiClassifier = Null
    /\ ops = 0

engineVars == <<config, suggestions, errors, fs, renames, lastRun, lastApply, lastTool,
               aiClassifier, ops>>

(***************************************************************************)
(* applyMoves and the move loop of the apply_organization tool.            *)
(***************************************************************************)
tryMove(fsys, move) ==
    \* the try block: create the destination directory, rename the file
    LET destDir == PathDirname(move.suggested)
        made == IF existsSync(fsys, destDir) THEN [ok |-> TRUE, fs |-> fsys]
                ELSE mkdirSync(fsys, destDir)
    IN  IF ~made.ok THEN [ok |-> FALSE, fs |-> fsys]
        ELSE renameSync(made.fs, move.current, move.suggested)

Indices(seq) == [i \in 1..Len(seq) |-> i]

autoMovesAll(cfg, suggs) ==
    \* a selection that ignores the autoApply threshold
    Indices(suggs)

\* the positions of this.suggestions that applyMoves selects
autoMoves(cfg, suggs) ==
    SelectSeq(Indices(suggs),
              LAMBDA i : suggs[i].confidence >= GetKey(cfg.thresholds, "autoApply"))

NoMoves(fsys) == [fs |-> fsys, attempts |-> <<>>, successful |-> 0, failed |-> 0]

RECURSIVE moveLoopAborting(_, _, _, _)
moveLoopAborting(suggs, idxs, k, acc) ==
    \* a move loop whose first failure ends the batch
    IF k > Len(idxs) THEN acc
    ELSE LET move == suggs[idxs[k]]
             r == tryMove(acc.fs, move)
             next == [ fs |-> r.fs,
                       attempts |-> Append(acc.attempts,
                           [idx |-> idxs[k], from |-> move.current,
                            to |-> move.suggested, ok |-> r.ok]),
                       successful |-> IF r.ok THEN acc.successful + 1 ELSE acc.successful,
                       failed |-> IF r.ok THEN acc.failed ELSE acc.failed + 1 ]
         IN  IF r.ok THEN moveLoopAborting(suggs, idxs, k + 1, next) ELSE next

RECURSIVE moveLoop(_, _, _, _)
moveLoop(suggs, idxs, k, acc) ==
    \* for (const move of autoMoves) { try { ... } catch { failed++ } }
    IF k > Len(idxs) THEN acc
    ELSE LET move == suggs[idxs[k]]
             r == tryMove(acc.fs, move)
         IN  moveLoop(suggs, idxs, k + 1,
                 [ fs |-> r.fs,
                   attempts |-> Append(acc.attempts,
                       [idx |-> idxs[k], from |-> move.current, to |-> move.suggested,
                        ok |-> r.ok]),
                   successful |-> IF r.ok THEN acc.successful + 1 ELSE acc.successful,
                   failed |-> IF r.ok THEN acc.failed ELSE acc.failed + 1 ])

applyMoves(cfg, suggs, fsys) == moveLoop(suggs, autoMoves(cfg, suggs), 1, NoMoves(fsys))

(***************************************************************************)
(* The apply_organization tool of the MCP server.  It works with the       *)
(* JavaScript organizer (require('../doc-organizer.js')).                  *)
(***************************************************************************)
DefaultMinConfidence == Pct(80)

toolSuggestions(fsys, args) ==
    LET minConfidence == IF args.minConfidence = 0 THEN DefaultMinConfidence
                         ELSE args.minConfidence
    IN  IF Len(args.suggestions) > 0
        THEN [i \in 1..Len(args.suggestions) |->
                 [ current |-> args.suggestions[i].current,
                   suggested |-> args.suggestions[i].suggested,
                   category |-> "unknown", confidence |-> Pct(100),
                   reasons |-> <<"user-provided">> ]]
        ELSE LET organizer ==
                     generateSuggestions(
                         mergeWithDefaults(
                             [EmptyUserConfig EXCEPT
                                 !.thresholds = <<KV("autoApply", minConfidence)>>], "js"),
                         fsys, "js")
             IN  SelectSeq(organizer.appended, LAMBDA x : x.confidence >= minConfidence)

RECURSIVE toolLoop(_, _, _, _)
toolLoop(suggs, k, dryRun, acc) ==
    \* for (const suggestion of suggestions) { ... result.moves.push(moveResult) }
    IF k > Len(suggs) THEN acc
    ELSE IF dryRun
    THEN toolLoop(suggs, k + 1, dryRun,
             [acc EXCEPT !.moves = Append(@, [from |-> suggs[k].current,
                                              to |-> suggs[k].suggested, success |-> TRUE]),
                         !.successful = @ + 1])
    ELSE LET r == tryMove(acc.fs, suggs[k]) IN
         toolLoop(suggs, k + 1, dryRun,
             [ fs |-> r.fs,
               attempts |-> Append(acc.attempts,
                   [idx |-> k, from |-> suggs[k].current, to |-> suggs[k].suggested,
                    ok |-> r.ok]),
               moves |-> Append(acc.moves, [from |-> suggs[k].current,
                                            to |-> suggs[k].suggested, success |-> r.ok]),
               successful |-> IF r.ok THEN acc.successful + 1 ELSE acc.successful,
               failed |-> IF r.ok THEN acc.failed ELSE acc.failed + 1 ])

\* the result object of the tool, with the file system it leaves
toolResult(suggs, r) ==
    [ fs |-> r.fs, candidates |-> suggs, attempts |-> r.attempts, moves |-> r.moves,
      successful |-> r.successful, failed |-> r.failed ]

\* the move loop of the tool on its suggestions
toolMoves(fsys, suggs, dryRun) ==
    toolResult(suggs, toolLoop(suggs, 1, dryRun,
                   [fs |-> fsys, attempts |-> <<>>, moves |-> <<>>,
                    successful |-> 0, failed |-> 0]))

handleApplyOrganizationForced(fsys, args) ==
    \* the move loop run as if dryRun were false
    toolMoves(fsys, toolSuggestions(fsys, args), FALSE)

handleApplyOrganization(fsys, args) ==
    toolMoves(fsys, toolSuggestions(fsys, args), args.dryRun)

(***************************************************************************)
(* User configurations of the model.                                       *)
(***************************************************************************)
UserLibrary ==
    [EmptyUserConfig EXCEPT !.projectType = "library",
                            !.structure = <<KV("aiDocs", "docs")>>,
                            !.thresholds = <<KV("suggest", Pct(50))>>,
                            !.ai = <<KV("enabled", TRUE)>>]

UserMobile ==
    [EmptyUserConfig EXCEPT !.projectType = "mobile",
                            !.thresholds = <<KV("content", Pct(90))>>]

UserCustom ==
    [EmptyUserConfig EXCEPT
        !.patterns = << KV("custom", << Lit(<<"feature">>), Lit(<<"note">>) >>),
                        KV("architecture", << Lit(<<"notes">>), Lit(<<"architecture">>) >>) >>,
        !.destinations = << KV("custom", "docs/custom/") >>,
        !.thresholds = << KV("filename", Pct(75)), KV("content", Pct(60)),
                          KV("suggest", 0) >>,
        !.protectedFiles = << "feature-secret.md", "docs/testing-guide.md" >>]

UserAgents ==
    [EmptyUserConfig EXCEPT
        !.patterns = << KV("aiInstructions", << Dots(<<"agent">>) >>) >>,
        !.thresholds = << KV("content", Pct(75)) >>]

\* the command line's --ai: userConfig.ai.enabled and userConfig.useAI
UserAI ==
    [EmptyUserConfig EXCEPT
        !.useAI = TRUE,
        !.ai = << KV("enabled", TRUE) >>,
        !.thresholds = << KV("content", Pct(70)) >>]

UserConfigs == {EmptyUserConfig, UserLibrary, UserMobile, UserCustom, UserAgents, UserAI}

Impls == {"ts", "js"}

(***************************************************************************)
(* The worlds the engine starts in, and the calls of the tool.             *)
(***************************************************************************)
WorldWeb ==
    << File("README.md", "setup instructions for this project"),
       File("feature-login.md", "Login feature"),
       File("notes.md", "setup notes"),
       Dir("ai_docs"),
       Dir("ai_docs/setup"),
       File("ai_docs/setup/CLAUDE.md", "CLAUDE rules"),
       Dir("drafts"),
       File("drafts/feature-login.md", "Draft of the login feature"),
       File("testing-guide.md", "How to test") >>

WorldLibrary ==
    << File("API.md", "api reference"),
       File("usage.md", "Usage"),
       Dir("docs"),
       File("docs/README.md", "api- overview"),
       [File("api-spec.md", "Specification") EXCEPT !.locked = TRUE],
       File("spec-login.md", "Login"),
       File("todo.md", "hello world"),
       Dir("node_modules"),
       File("node_modules/feature-dep.md", "A dependency") >>

WorldBroken ==
    << [File("feature-x.md", "x") EXCEPT !.readable = FALSE],
       [Dir("private") EXCEPT !.listable = FALSE],
       File("guide.md", "A guide"),
       File("feature-secret.md", "Secret feature"),
       [File("broken.md", "") EXCEPT !.statOk = FALSE],
       File("prd-search.md", "Search") >>

Worlds == {WorldWeb, WorldLibrary, WorldBroken}

ToolArgs ==
    { [suggestions |-> <<>>, minConfidence |-> 0, dryRun |-> FALSE],
      [suggestions |-> <<>>, minConfidence |-> 0, dryRun |-> TRUE],
      [suggestions |-> << [current |-> "README.md", suggested |-> "docs/README.md"] >>,
       minConfidence |-> 0, dryRun |-> FALSE],
      [suggestions |-> << [current |-> "missing.md", suggested |-> "docs/missing.md"],
                          [current |-> "todo.md", suggested |-> "archive/todo.md"],
                          [current |-> "guide.md", suggested |-> "archive/guide.md"] >>,
       minConfidence |-> 0, dryRun |-> FALSE] }

AIAnswers ==
    { AIAnswer("none", Null, 0),
      AIAnswer("fixed", "features", Pct(95)),
      AIAnswer("fixed", "unknown", Pct(90)),
      AIAnswer("agree", "setup", Pct(40)) }

(***************************************************************************)
(* The engine: an organizer constructed by the command line, and the tool. *)
(***************************************************************************)
\* the constructor's aiClassifier; new Anthropic() fails without an API key
newClassifier(userConfig, cfg) ==
    IF userConfig.useAI \/ GetKey(cfg.ai, "enabled") THEN {"ready", "keyless"} ELSE {Null}

Init ==
    /\ probe = NoProbe
    /\ \E u \in UserConfigs, w \in Worlds :
          /\ config = mergeWithDefaults(u, "ts")
          /\ aiClassifier \in newClassifier(u, config)
          /\ fs = w
    /\ suggestions = <<>>
    /\ errors = <<>>
    /\ renames = <<>>
    /\ lastRun = NoCall
    /\ lastApply = NoCall
    /\ lastTool = NoCall
    /\ ops = 0

logged(by, attempts) ==
    [i \in 1..Len(attempts) |->
        [by |-> by, from |-> attempts[i].from, to |-> attempts[i].to, ok |-> attempts[i].ok]]

GenerateSuggestions ==
    /\ ops < MaxOps
    /\ \E r \in {generateSuggestions(config, fs, "ts")} :
          /\ config' = r.config
          /\ suggestions' = suggestions \o r.appended
          /\ errors' = errors \o r.errors
          /\ lastRun' = [called |-> TRUE, by |-> "generateSuggestions",
                         answer |-> AIAnswer("none", Null, 0),
                         files |-> r.files, analyses |-> r.analyses,
                         appended |-> r.appended, errors |-> r.errors, stats |-> r.stats]
    /\ lastApply' = NoCall
    /\ ops' = ops + 1
    /\ UNCHANGED <<fs, renames, lastTool, aiClassifier, probe>>

GenerateSuggestionsWithAI ==
    /\ ops < MaxOps
    /\ \E answer \in IF aiClassifier = "ready" THEN AIAnswers ELSE {AIAnswer("none", Null, 0)} :
       \E r \in {generateSuggestionsWithAI(config, fs, aiClassifier, answer)} :
          /\ config' = r.config
          /\ suggestions' = suggestions \o r.appended
          /\ errors' = errors \o r.errors
          /\ lastRun' = [called |-> TRUE, by |-> "generateSuggestionsWithAI",
                         answer |-> answer,
                         files |-> r.files, analyses |-> r.analyses,
                         appended |-> r.appended, errors |-> r.errors, stats |-> r.stats]
    /\ lastApply' = NoCall
    /\ ops' = ops + 1
    /\ UNCHANGED <<fs, renames, lastTool, aiClassifier, probe>>

ApplyMoves ==
    /\ ops < MaxOps
    /\ \E r \in {applyMoves(config, suggestions, fs)} :
          /\ fs' = r.fs
          /\ renames' = renames \o logged("applyMoves", r.attempts)
          /\ lastApply' = [called |-> TRUE, list |-> suggestions, attempts |-> r.attempts,
                           successful |-> r.successful, failed |-> r.failed]
    /\ ops' = ops + 1
    /\ UNCHANGED <<config, suggestions, errors, lastRun, lastTool, aiClassifier, probe>>

ApplyOrganizationTool ==
    /\ ops < MaxOps
    /\ \E args \in ToolArgs :
          \E r \in {handleApplyOrganization(fs, args)} :
          /\ fs' = r.fs
          /\ renames' = renames \o logged("apply_organization", r.attempts)
          /\ lastTool' = [called |-> TRUE, args |-> args, candidates |-> r.candidates,
                          moves |-> r.moves, successful |-> r.successful,
                          failed |-> r.failed]
    /\ ops' = ops + 1
    /\ UNCHANGED <<config, suggestions, errors, lastRun, lastApply, aiClassifier, probe>>

Next ==
    \/ GenerateSuggestions
    \/ GenerateSuggestionsWithAI
    \/ ApplyMoves
    \/ ApplyOrganizationTool

Spec == Init /\ [][Next]_vars

(***************************************************************************)
(* isCorrectlyPlaced's comparison on pairs of directory strings.           *)
(***************************************************************************)
DirAlphabet == {".", "/", "d"}

RECURSIVE StringsUpTo(_)
StringsUpTo(n) ==
    IF n = 0 THEN {""}
    ELSE LET shorter == StringsUpTo(n - 1) IN
         shorter \cup {s \o c : s \in shorter, c \in DirAlphabet}

NamedDirs ==
    {"docs", "docs/", "./docs", "./docs/", "doc", "doc/", "ai_docs/setup",
     "ai_docs/setup/", "docs/ai/setup", "specs/"}

DirInputs == StringsUpTo(MaxDirLen) \cup NamedDirs

InitPlaced ==
    /\ EngineIdle
    /\ \E c \in DirInputs, e \in DirInputs :
          probe = [fn |-> "placedDirs", currentDir |-> c, expectedDir |-> e,
                   done |-> FALSE, result |-> FALSE]

PlacedApply ==
    /\ probe.fn = "placedDirs"
    /\ ~probe.done
    /\ probe' = [probe EXCEPT !.done = TRUE,
                              !.result = placedDirs(probe.currentDir, probe.expectedDir)]
    /\ UNCHANGED engineVars

NextPlaced == PlacedApply

SpecPlaced == InitPlaced /\ [][NextPlaced]_vars

(***************************************************************************)
(* analyzeFileContent on one document, for a configuration as              *)
(* generateSuggestions sees it (merged, then adjusted for the project      *)
(* type).                                                                  *)
(***************************************************************************)
ProbePaths ==
    { "feature-login.md", "api-spec.md", "spec-login.md", "testing-guide.md",
      "security-audit.md", "notes.md", "README.md", "docs/README.md", "CLAUDE.md",
      "ai_docs/features/feature-login.md", "docs/testing-guide.md", "API.md",
      "store-listing.md", "feature-secret.md", "usage.md" }

ProbeContents ==
    { "", "hello world", "setup instructions", "ai-guide for agents", "CLAUDE rules",
      "Project" \o "\n" \o "setup", "feature- of every agent guide audit",
      Repeat("x", 195) \o "audit",
      Repeat("x", 196) \o "audit",
      Repeat("x", 196) \o "audiX",
      Repeat("x", 200) \o "audit",
      "setup" \o Repeat("x", 195) \o "guide",
      "setup" \o Repeat("x", 195) \o "audit" }

InitClassify ==
    /\ EngineIdle
    /\ \E impl \in Impls, u \in UserConfigs, f \in ProbePaths, c \in ProbeContents :
          probe = [fn |-> "classify", impl |-> impl,
                   cfg |-> adjustForProjectType(mergeWithDefaults(u, impl)),
                   filePath |-> f, content |-> c, done |-> FALSE,
                   result |-> NullAnalysis(f, Null)]

ClassifyApply ==
    /\ probe.fn = "classify"
    /\ ~probe.done
    /\ probe' = [probe EXCEPT !.done = TRUE,
                              !.result = classify(probe.cfg, probe.filePath,
                                                  probe.content, probe.impl)]
    /\ UNCHANGED engineVars

NextClassify == ClassifyApply

SpecClassify == InitClassify /\ [][NextClassify]_vars

(***************************************************************************)
(* resolveDestination on templates built from literal segments and the     *)
(* known placeholders.                                                     *)
(***************************************************************************)
MaxTemplateLen == 3

Placeholders == {"{aiDocs}", "{specs}", "{root}"}

TemplateLiterals == {"docs/", "x"}

RECURSIVE TemplatesUpTo(_)
TemplatesUpTo(n) ==
    IF n = 0 THEN {<<>>}
    ELSE LET shorter == TemplatesUpTo(n - 1) IN
         shorter \cup {Append(t, s) : t \in shorter, s \in Placeholders \cup TemplateLiterals}

RECURSIVE Concat(_)
Concat(segs) == IF segs = <<>> THEN "" ELSE Head(segs) \o Concat(Tail(segs))

\* the structure of organizer.test.ts
UserStructure ==
    [EmptyUserConfig EXCEPT
        !.structure = << KV("aiDocs", "docs/ai"), KV("specs", "specifications"),
                         KV("root", "./") >>]

InitResolve ==
    /\ EngineIdle
    /\ \E impl \in Impls, u \in {EmptyUserConfig, UserStructure},
          t \in TemplatesUpTo(MaxTemplateLen) \ {<<>>} :
          probe = [fn |-> "resolveDestination", cfg |-> mergeWithDefaults(u, impl),
                   segments |-> t, destination |-> Concat(t), done |-> FALSE,
                   result |-> ""]

ResolveApply ==
    /\ probe.fn = "resolveDestination"
    /\ ~probe.done
    /\ probe' = [probe EXCEPT !.done = TRUE,
                              !.result = resolveDestination(probe.cfg, probe.destination)]
    /\ UNCHANGED engineVars

NextResolve == ResolveApply

SpecResolve == InitResolve /\ [][NextResolve]_vars

(***************************************************************************)
(* analyzeFileContentWithAI on one document of a directory, for an         *)
(* organizer as the command line constructs it and every answer of the     *)
(* external classifier.                                                    *)
(***************************************************************************)
\* the request that analyzeFileContentWithAI hands to classify
classifyRequest(analysis) ==
    [filePath |-> analysis.currentPath, existingAnalysis |-> existingAnalysis(analysis)]

\* the requests that analyzeFileContentWithAI sends to the external
\* classifier for the analysis that analyzeFileContent returned
aiRequests(cfg, classifier, analysis) ==
    IF analysis.isNull THEN <<>>
    ELSE IF ~shouldUseAI(cfg, classifier, analysis) THEN <<>>
    ELSE <<classifyRequest(analysis)>>

RECURSIVE FilesOf(_)
FilesOf(fsys) ==
    IF fsys = <<>> THEN {}
    ELSE (IF Head(fsys).kind = "file" THEN {Head(fsys)} ELSE {}) \cup FilesOf(Tail(fsys))

EnhanceDocs ==
    FilesOf(WorldWeb) \cup FilesOf(WorldLibrary) \cup FilesOf(WorldBroken)
        \cup {File("store-listing.md", "Listing"), File("install.md", "setup steps")}

\* the answers of the external classifier: no tool_use block, a failed
\* request, and classifications within the schema
EnhanceAnswers ==
    AIAnswers \cup
    { AIAnswer("error", Null, 0),
      AIAnswer("fixed", "features", 0),
      AIAnswer("fixed", "setup", Pct(50)),
      AIAnswer("fixed", "guides", Pct(30)),
      AIAnswer("agree", "setup", Pct(70)),
      AIAnswer("fixed", "features", Pct(100)) }

\* AI enabled with the fallback threshold at the filename confidence
UserFallback ==
    [EmptyUserConfig EXCEPT
        !.useAI = TRUE,
        !.ai = << KV("enabled", TRUE), KV("fallbackThreshold", Pct(90)) >>]

EnhanceConfigs == UserConfigs \cup {UserFallback}

InitEnhance ==
    /\ EngineIdle
    /\ \E u \in EnhanceConfigs, d \in EnhanceDocs, a \in EnhanceAnswers :
       \E c \in newClassifier(u, mergeWithDefaults(u, "ts")) :
          probe = [fn |-> "analyzeFileContentWithAI",
                   cfg |-> adjustForProjectType(mergeWithDefaults(u, "ts")),
                   classifier |-> c, doc |-> d, answer |-> a, done |-> FALSE,
                   analysis |-> NullAnalysis(d.path, Null), requests |-> <<>>,
                   result |-> NullAnalysis(d.path, Null)]

EnhanceApply ==
    /\ probe.fn = "analyzeFileContentWithAI"
    /\ ~probe.done
    /\ \E analysis \in {analyzeFileContent(probe.cfg, <<probe.doc>>, probe.doc.path, "ts")} :
          probe' = [probe EXCEPT
                       !.done = TRUE,
                       !.analysis = analysis,
                       !.requests = aiRequests(probe.cfg, probe.classifier, analysis),
                       !.result = enhance(probe.cfg, probe.classifier, probe.answer,
                                          analysis)]
    /\ UNCHANGED engineVars

NextEnhance == EnhanceApply

SpecEnhance == InitEnhance /\ [][NextEnhance]_vars

(***************************************************************************)
(* mergeAnalysis on an existing analysis and an AI result.                 *)
(***************************************************************************)
MergeCategories == {"setup", "features", "unknown"}

\* percentages of the existing confidence: 0 (no match, or a threshold
\* configured as 0), the configured filename and content confidences of the
\* user configurations, and 1.0
ExistingPercents == {0, 50, 60, 70, 75, 90, 95, 100}

AIPercents == {0, 30, 50, 70, 90, 95, 100}

MergeReasons == {<<>>, <<"filename match">>, <<"content match", "note">>}

\* existingAnalysis as analyzeFileContentWithAI builds it: no category with
\* confidence 0, or a category with a configured confidence
ExistingAnalyses ==
    {[category |-> Null, confidence |-> 0, reasons |-> <<>>]} \cup
    {[category |-> c, confidence |-> Pct(p), reasons |-> r] :
        c \in MergeCategories \ {"unknown"}, p \in ExistingPercents,
        r \in MergeReasons \ {<<>>}}

AIResults ==
    {[isNull |-> FALSE, category |-> c, confidence |-> Pct(p), reason |-> "because"] :
        c \in MergeCategories, p \in AIPercents}

InitMerge ==
    /\ EngineIdle
    /\ \E e \in ExistingAnalyses, a \in AIResults :
          probe = [fn |-> "mergeAnalysis", existingAnalysis |-> e, aiResult |-> a,
                   done |-> FALSE, result |-> e]

MergeApply ==
    /\ probe.fn = "mergeAnalysis"
    /\ ~probe.done
    /\ probe' = [probe EXCEPT !.done = TRUE,
                              !.result = mergeAnalysis(probe.existingAnalysis,
                                                       probe.aiResult)]
    /\ UNCHANGED engineVars

NextMerge == MergeApply

SpecMerge == InitMerge /\ [][NextMerge]_vars

(***************************************************************************)
(* generateSuggestionsWithAI step by step: the loop over the enumerated    *)
(* documents, suspended at the await of analyzeFileContentWithAI while a   *)
(* request to the external classifier is in flight.                        *)
(***************************************************************************)
\* the answers of the external classifier to one request
LoopAnswers == AIAnswers \cup {AIAnswer("error", Null, 0), AIAnswer("fixed", "features", 0)}

\* the answer recorded for a document that was not sent
Unsent == AIAnswer("unsent", Null, 0)

afterAnalysisNoAwait(sent) ==
    \* the loop goes on without awaiting the request
    "next"

\* where the loop stands after analyzeFileContent: suspended at the await
\* when a request was sent, else at the next document
afterAnalysis(sent) == IF sent THEN "awaiting" ELSE "next"

\* the requests in flight after analyzeFileContentWithAI has sent its own
sendRequests(outstanding, requests) == outstanding \o requests

InitLoop ==
    /\ EngineIdle
    /\ \E u \in UserConfigs, w \in Worlds :
       \E c \in newClassifier(u, mergeWithDefaults(u, "ts")) :
       \E cfg \in {adjustForProjectType(mergeWithDefaults(u, "ts"))} :
          probe = [fn |-> "generateSuggestionsWithAI", cfg |-> cfg, classifier |-> c,
                   fsys |-> w, files |-> getAllMdFiles(w, cfg).files, i |-> 1,
                   pc |-> "next", outstanding |-> <<>>, patterns |-> <<>>,
                   answers |-> <<>>, acc |-> NoSuggestions]

\* the head of an iteration: analyzeFileContent, and the request of
\* analyzeFileContentWithAI if one is sent; without a request the iteration
\* runs to its end
LoopAnalyze ==
    /\ probe.fn = "generateSuggestionsWithAI"
    /\ probe.pc = "next"
    /\ probe.i <= Len(probe.files)
    /\ \E analysis \in {analyzeFileContent(probe.cfg, probe.fsys, probe.files[probe.i], "ts")} :
       \E requests \in {IF GetKey(probe.cfg.ai, "enabled")
                        THEN aiRequests(probe.cfg, probe.classifier, analysis)
                        ELSE <<>>} :
          probe' = IF requests # <<>>
                   THEN [probe EXCEPT !.pc = afterAnalysis(TRUE),
                                      !.outstanding = sendRequests(@, requests),
                                      !.patterns = Append(@, analysis)]
                   ELSE [probe EXCEPT !.pc = afterAnalysis(FALSE),
                                      !.i = @ + 1,
                                      !.patterns = Append(@, analysis),
                                      !.answers = Append(@, Unsent),
                                      !.acc = suggestStep(probe.cfg, analysis, "ts", @)]
    /\ UNCHANGED engineVars

\* the external classifier answers the request in flight: the rest of
\* analyzeFileContentWithAI and of the iteration
LoopRespond ==
    /\ probe.fn = "generateSuggestionsWithAI"
    /\ probe.pc = "awaiting"
    /\ probe.outstanding # <<>>
    /\ \E answer \in LoopAnswers :
          probe' = [probe EXCEPT
                       !.pc = "next",
                       !.i = @ + 1,
                       !.outstanding = Tail(@),
                       !.answers = Append(@, answer),
                       !.acc = suggestStep(probe.cfg,
                                   useResult(probe.cfg, probe.patterns[probe.i],
                                             aiClassify(answer, Head(probe.outstanding))),
                                   "ts", @)]
    /\ UNCHANGED engineVars

NextLoop == LoopAnalyze \/ LoopRespond

SpecLoop == InitLoop /\ [][NextLoop]_vars

(***************************************************************************)
(* Analysis runs alone: generateSuggestions and generateSuggestionsWithAI  *)
(* on one organizer, with no move in between, so the directory stays as    *)
(* the runs found it.                                                      *)
(***************************************************************************)
NextRuns == GenerateSuggestions \/ GenerateSuggestionsWithAI

SpecRuns == Init /\ [][NextRuns]_vars

(***************************************************************************)
(* loadConfiguration on the configuration sources of a directory.          *)
(***************************************************************************)
configPaths == <<".doc-organizer.json", "package.json", ".doc-organizer.js">>

\* a source that does not exist; one that cannot be parsed or required; a
\* package.json without the docOrganizer field; a source holding a
\* configuration
NoSource == [exists |-> FALSE, valid |-> FALSE, hasConfig |-> FALSE, config |-> EmptyUserConfig]

BadSource == [exists |-> TRUE, valid |-> FALSE, hasConfig |-> FALSE, config |-> EmptyUserConfig]

NoFieldSource == [exists |-> TRUE, valid |-> TRUE, hasConfig |-> FALSE, config |-> EmptyUserConfig]

Source(u) == [exists |-> TRUE, valid |-> TRUE, hasConfig |-> TRUE, config |-> u]

SourceConfigs == {UserLibrary, UserMobile}

\* the returned configuration, with the path it was loaded from (none for
\* the closing return {})
NoConfiguration == [path |-> Null, config |-> EmptyUserConfig]

RECURSIVE loadFrom(_, _)
loadFrom(sources, k) ==
    \* the loop over configPaths; an exception skips the source
    IF k > Len(configPaths) THEN NoConfiguration
    ELSE LET s == GetKey(sources, configPaths[k]) IN
         IF s.exists /\ s.valid /\ s.hasConfig
         THEN [path |-> configPaths[k], config |-> s.config]
         ELSE loadFrom(sources, k + 1)

loadConfiguration(sources) == loadFrom(sources, 1)

InitConfig ==
    /\ EngineIdle
    /\ \E j \in {NoSource, BadSource} \cup {Source(u) : u \in SourceConfigs},
          p \in {NoSource, BadSource, NoFieldSource} \cup {Source(u) : u \in SourceConfigs},
          s \in {NoSource, BadSource} \cup {Source(u) : u \in SourceConfigs} :
          probe = [fn |-> "loadConfiguration",
                   sources |-> << KV(".doc-organizer.json", j), KV("package.json", p),
                                  KV(".doc-organizer.js", s) >>,
                   done |-> FALSE, result |-> NoConfiguration]

ConfigApply ==
    /\ probe.fn = "loadConfiguration"
    /\ ~probe.done
    /\ probe' = [probe EXCEPT !.done = TRUE,
                              !.result = loadConfiguration(probe.sources)]
    /\ UNCHANGED engineVars

NextConfig == ConfigApply

SpecConfig == InitConfig /\ [][NextConfig]_vars

(***************************************************************************)
(* The apply_organization tool alone, called repeatedly on a directory.    *)
(***************************************************************************)
NextTool == ApplyOrganizationTool

SpecTool == Init /\ [][NextTool]_vars

(***************************************************************************)
(* The command line: the script of bin/cli.js up to its first exit, the    *)
(* MCP server module it requires, and the tool calls the server answers.   *)
(* The promise of server.connect is settled by the event loop, which runs  *)
(* once the script has returned.                                           *)
(***************************************************************************)
MaxToolCalls == 2

CliFlags == {"mcp", "--mcp", "--help", "-h", "--apply", "--ai"}

\* node bin/cli.js <args>, or node dist/mcp-server.js
Entries == {"cli", "mcp-server"}

InitCli ==
    /\ EngineIdle
    /\ \E e \in Entries, a \in SUBSET CliFlags :
          probe = [fn |-> "cli", entry |-> e, args |-> a, pc |-> "start",
                   server |-> "none", exited |-> FALSE, answered |-> 0]

\* main() of the server module up to its await: the transport is created
\* and server.connect is called
mainCalled(p) == [p EXCEPT !.server = "connecting"]

\* the script of cli.js from its first line to process.exit or to the call
\* of run()
CliScript ==
    /\ probe.fn = "cli"
    /\ probe.entry = "cli"
    /\ probe.pc = "start"
    /\ probe' = IF "--help" \in probe.args \/ "-h" \in probe.args
                THEN [probe EXCEPT !.pc = "exit", !.exited = TRUE]
                ELSE IF "mcp" \in probe.args \/ "--mcp" \in probe.args
                THEN [mainCalled(probe) EXCEPT !.pc = "exit", !.exited = TRUE]
                ELSE [probe EXCEPT !.pc = "run"]
    /\ UNCHANGED engineVars

\* the server module run as the main script: main() is called and the
\* script returns to the event loop
ServerScript ==
    /\ probe.fn = "cli"
    /\ probe.entry = "mcp-server"
    /\ probe.pc = "start"
    /\ probe' = [mainCalled(probe) EXCEPT !.pc = "loop"]
    /\ UNCHANGED engineVars

\* the event loop settles server.connect: the server runs on stdio
ServerConnected ==
    /\ probe.fn = "cli"
    /\ probe.pc = "loop"
    /\ ~probe.exited
    /\ probe.server = "connecting"
    /\ probe' = [probe EXCEPT !.server = "connected"]
    /\ UNCHANGED engineVars

\* a tool call arrives on stdin and is answered
ToolCallAnswered ==
    /\ probe.fn = "cli"
    /\ ~probe.exited
    /\ probe.server = "connected"
    /\ probe.answered < MaxToolCalls
    /\ probe' = [probe EXCEPT !.answered = @ + 1]
    /\ UNCHANGED engineVars

\* run() of the standard mode ends and the process exits
CliRun ==
    /\ probe.fn = "cli"
    /\ probe.pc = "run"
    /\ probe' = [probe EXCEPT !.pc = "exit", !.exited = TRUE]
    /\ UNCHANGED engineVars

NextCli == CliScript \/ ServerScript \/ ServerConnected \/ ToolCallAnswered \/ CliRun

SpecCli == InitCli /\ [][NextCli]_vars

(***************************************************************************)
(* The engine constructed with configurations that set a destination       *)
(* without a trailing separator or a pattern for a category that a project *)
(* type also sets.  The constructor's argument is kept for reference.      *)
(***************************************************************************)
UserFlat ==
    [EmptyUserConfig EXCEPT !.structure = <<KV("aiDocs", "docs")>>,
                            !.destinations = <<KV("features", "{aiDocs}/features")>>]

UserApi ==
    [EmptyUserConfig EXCEPT !.projectType = "library",
                            !.patterns = <<KV("api", << Lit(<<"endpoint">>) >>),
                                           KV("notes", << Lit(<<"notes">>) >>)>>,
                            !.destinations = <<KV("notes", "docs/notes/")>>]

InitUser ==
    /\ \E u \in {UserFlat, UserApi}, w \in {WorldWeb, WorldLibrary} :
          /\ probe = [fn |-> "constructor", userConfig |-> u]
          /\ config = mergeWithDefaults(u, "ts")
          /\ aiClassifier \in newClassifier(u, config)
          /\ fs = w
    /\ suggestions = <<>>
    /\ errors = <<>>
    /\ renames = <<>>
    /\ lastRun = NoCall
    /\ lastApply = NoCall
    /\ lastTool = NoCall
    /\ ops = 0

SpecUser == InitUser /\ [][Next]_vars

(***************************************************************************)
(* Claims.                                                                 *)
(***************************************************************************)

(***************************************************************************)
(* Protected files, the suggestion list and the moves.                     *)
(***************************************************************************)
\* membership of a path, or of its file name, in a configuration's list of
\* protected files
InProtectedSet(cfg, path) ==
    \E k \in 1..Len(cfg.protectedFiles) :
        cfg.protectedFiles[k] = path \/ cfg.protectedFiles[k] = PathBasename(path)

\* the configuration of the organizer that the tool constructs
ToolConfig == mergeWithDefaults(EmptyUserConfig, "js")

\* C1: a document whose file name or path is in the protected set, the names
\* that adjustForProjectType adds included, is never in the suggestion list
\* that generateSuggestions / generateSuggestionsWithAI produce, and never
\* among the suggestions that the tool generates with its own organizer.
C1_ProtectedNeverSuggested ==
    /\ \A i \in 1..Len(suggestions) : ~InProtectedSet(config, suggestions[i].current)
    /\ (lastTool.called /\ Len(lastTool.args.suggestions) = 0) =>
          \A i \in 1..Len(lastTool.candidates) :
              ~InProtectedSet(ToolConfig, lastTool.candidates[i].current)

\* a run with the AI path has enumerated API.md, protected only by the
\* library adjustment and named like the api rule, has appended an
\* AI-enhanced suggestion, and API.md is not in the list
C1_Witness ==
    /\ lastRun.called
    /\ lastRun.by = "generateSuggestionsWithAI"
    /\ config.projectType = "library"
    /\ \E i \in 1..Len(lastRun.files) :
          /\ lastRun.files[i] = "API.md"
          /\ ~SeqIncludes(DefaultProtectedFiles, "API.md")
          /\ InProtectedSet(config, "API.md")
          /\ RegExpTest(GetKey(config.patterns, "api"), "API")
          /\ lastRun.analyses[i].isNull
    /\ \E k \in 1..Len(lastRun.appended) : lastRun.appended[k].aiEnhanced
    /\ \A k \in 1..Len(suggestions) : suggestions[k].current # "API.md"

\* C2: no rename that applyMoves or the apply_organization tool has executed
\* has a protected file as its source (the protected set of the engine for
\* applyMoves, of the tool's organizer for the tool).
C2_ProtectedNeverMoved ==
    \A k \in 1..Len(renames) :
        renames[k].ok =>
            ~InProtectedSet(IF renames[k].by = "applyMoves" THEN config ELSE ToolConfig,
                            renames[k].from)

HasCategory(analysis) == ~analysis.isNull /\ ~Falsy(analysis.suggestedCategory)

\* the positions of the enumerated documents that have a category, are not
\* correctly placed and reach the suggest threshold
Misplaced(run) ==
    SelectSeq(Indices(run.files),
              LAMBDA i : /\ HasCategory(run.analyses[i])
                         /\ ~isCorrectlyPlaced(config, run.analyses[i], "ts")
                         /\ run.analyses[i].confidence >= GetKey(config.thresholds, "suggest"))

\* C3: a run appends a suggestion for an enumerated document exactly when
\* the document has a category, is not correctly placed and has a confidence
\* of at least thresholds.suggest; a document without a category is never
\* suggested, and a document that is not suggested leaves no error entry.
C3_SuggestedIff ==
    lastRun.called =>
        /\ Len(lastRun.analyses) = Len(lastRun.files)
        /\ Len(lastRun.appended) = Len(Misplaced(lastRun))
        /\ \A k \in 1..Len(lastRun.appended) :
              LET i == Misplaced(lastRun)[k] IN
              /\ lastRun.appended[k].current = lastRun.files[i]
              /\ lastRun.appended[k].category = lastRun.analyses[i].suggestedCategory
              /\ lastRun.appended[k].confidence = lastRun.analyses[i].confidence
        /\ lastRun.stats.misplaced = Len(lastRun.appended)
        /\ \A i \in 1..Len(lastRun.files) :
              ~lastRun.analyses[i].isNull =>
                  \A e \in 1..Len(lastRun.errors) :
                      ~Includes(lastRun.errors[e], lastRun.files[i])

\* a run with suggest threshold 0 that has seen a document without a
\* category, a correctly placed document with a category, and has appended a
\* suggestion
C3_Witness ==
    /\ lastRun.called
    /\ GetKey(config.thresholds, "suggest") = 0
    /\ \E i \in 1..Len(lastRun.files) :
          /\ ~lastRun.analyses[i].isNull
          /\ ~HasCategory(lastRun.analyses[i])
          /\ \A k \in 1..Len(lastRun.appended) :
                lastRun.appended[k].current # lastRun.files[i]
    /\ \E i \in 1..Len(lastRun.files) :
          /\ HasCategory(lastRun.analyses[i])
          /\ isCorrectlyPlaced(config, lastRun.analyses[i], "ts")
    /\ Len(lastRun.appended) > 0

AttemptedIndices == {lastApply.attempts[k].idx : k \in 1..Len(lastApply.attempts)}

C5_EveryMoveAttemptedOnce ==
    /\ lastApply.called =>
          LET due == SelectSeq(Indices(lastApply.list),
                         LAMBDA i : lastApply.list[i].confidence >=
                                        GetKey(config.thresholds, "autoApply"))
          IN  /\ [k \in 1..Len(lastApply.attempts) |-> lastApply.attempts[k].idx] = due
              /\ lastApply.successful + lastApply.failed = Len(due)
              /\ lastApply.successful =
                     Cardinality({k \in 1..Len(lastApply.attempts) : lastApply.attempts[k].ok})
    /\ lastTool.called =>
          /\ Len(lastTool.moves) = Len(lastTool.candidates)
          /\ \A k \in 1..Len(lastTool.moves) :
                /\ lastTool.moves[k].from = lastTool.candidates[k].current
                /\ lastTool.moves[k].to = lastTool.candidates[k].suggested
          /\ lastTool.successful + lastTool.failed = Len(lastTool.candidates)
          /\ lastTool.successful =
                 Cardinality({k \in 1..Len(lastTool.moves) : lastTool.moves[k].success})

\* applyMoves has gone on to a successful rename after a failed one
C5_Witness ==
    /\ lastApply.called
    /\ \E j, k \in 1..Len(lastApply.attempts) :
          j < k /\ ~lastApply.attempts[j].ok /\ lastApply.attempts[k].ok

(***************************************************************************)
(* Classification and placement.                                           *)
(***************************************************************************)

\* The normal form of a directory as C10 describes it: strip a leading
\* './', map '' to the root marker '.', add a trailing '/' to a non-root
\* directory.
NormalForm(d) ==
    LET a == StripLeadingDotSlash(d)
        b == IF a = "" THEN "." ELSE a
    IN  IF b # "." /\ ~EndsWith(b, "/") THEN b \o "/" ELSE b

PlacedDone == probe.fn = "placedDirs" /\ probe.done

\* C10 as stated: isCorrectlyPlaced returns true exactly when the normal
\* forms of the current and the expected directory are equal.
C10_ExactlyNormalFormsEqual ==
    PlacedDone =>
        (probe.result <=> NormalForm(probe.currentDir) = NormalForm(probe.expectedDir))

\* C10 as amended: isCorrectlyPlaced returns true exactly when the normal
\* forms are equal or one normal form is the root marker '.' and the other
\* is './' (the normal form of '././'); 'docs' and 'docs/' compare equal
\* either way round, '.' and './' compare equal, 'docs' and 'doc' do not.
C10_NormalFormsEqualOrRoot ==
    PlacedDone =>
        /\ probe.result <=>
              \/ NormalForm(probe.currentDir) = NormalForm(probe.expectedDir)
              \/ {NormalForm(probe.currentDir), NormalForm(probe.expectedDir)} = {".", "./"}
        /\ (probe.currentDir = "docs" /\ probe.expectedDir = "docs/") => probe.result
        /\ (probe.currentDir = "docs/" /\ probe.expectedDir = "docs") => probe.result
        /\ (probe.currentDir = "." /\ probe.expectedDir = "./") => probe.result
        /\ (probe.currentDir = "docs" /\ probe.expectedDir = "doc") => ~probe.result

\* C10 witness: 'docs' against 'docs/' has been compared and found equal.
C10_Witness ==
    PlacedDone /\ probe.currentDir = "docs" /\ probe.expectedDir = "docs/" /\ probe.result

(***************************************************************************)
(* Claims about analyzeFileContent.                                        *)
(***************************************************************************)
ClassifyDone == probe.fn = "classify" /\ probe.done

ProbeName == PathBasenameExt(probe.filePath, ".md")

First200(content) == SubSeq(content, 1, IF Len(content) < 200 THEN Len(content) ELSE 200)

\* the rules whose pattern accepts the document's name
NameRules ==
    {i \in 1..Len(probe.cfg.patterns) : RegExpTest(probe.cfg.patterns[i].value, ProbeName)}

\* the rules whose pattern accepts the first 200 characters of the content
HeaderRules ==
    {i \in 1..Len(probe.cfg.patterns) :
        RegExpTest(probe.cfg.patterns[i].value, First200(probe.content))}

HeaderRulesNotAI == {i \in HeaderRules : probe.cfg.patterns[i].key # "aiInstructions"}

Least(S) == CHOOSE i \in S : \A j \in S : i <= j

\* C6: when two or more filename rules accept the document's name, the
\* category of the classification is the one of the first accepting rule in
\* pattern order, and the rules after it do not change the category.
C6_FirstMatchWins ==
    (ClassifyDone /\ ~probe.result.isNull /\ Cardinality(NameRules) >= 2) =>
        /\ probe.result.suggestedCategory = probe.cfg.patterns[Least(NameRules)].key
        /\ classify([probe.cfg EXCEPT !.patterns = SubSeq(@, 1, Least(NameRules))],
                    probe.filePath, probe.content, probe.impl).suggestedCategory
              = probe.result.suggestedCategory

\* C6 witness: 'testing-guide' is accepted by maintenance, guides and testing
\* and has been classified as maintenance.
C6_Witness ==
    /\ ClassifyDone
    /\ probe.filePath = "testing-guide.md"
    /\ Cardinality(NameRules) >= 3
    /\ probe.result.suggestedCategory = "maintenance"

\* C7: in organizer.ts, a name accepted by any rule gives confidence
\* thresholds.filename and reasons ['filename match'] whatever the content;
\* reasons ['content match'] (with confidence thresholds.content) occur only
\* when no rule accepts the name; when neither scan matches, the category is
\* none and the confidence is 0.
C7_FilenameBeforeContent ==
    (ClassifyDone /\ probe.impl = "ts" /\ ~isProtected(probe.cfg, probe.filePath)) =>
        /\ ~probe.result.isNull
        /\ NameRules # {} =>
              /\ probe.result.confidence = GetKey(probe.cfg.thresholds, "filename")
              /\ probe.result.reasons = <<"filename match">>
        /\ probe.result.reasons = <<"content match">> =>
              /\ NameRules = {}
              /\ probe.result.confidence = GetKey(probe.cfg.thresholds, "content")
        /\ (NameRules = {} /\ HeaderRulesNotAI = {}) =>
              /\ probe.result.suggestedCategory = Null
              /\ probe.result.confidence = 0

\* C7 witness: a document whose name and whose content are both accepted by
\* some rule has been classified by its name.
C7_Witness ==
    /\ ClassifyDone
    /\ probe.impl = "ts"
    /\ NameRules # {}
    /\ HeaderRulesNotAI # {}
    /\ probe.result.reasons = <<"filename match">>

\* C8: a classification with category aiInstructions always has the reason
\* 'filename match'; when no rule accepts the name and the content prefix
\* matches the aiInstructions pattern, the content scan goes on: the category
\* is the one of the first other rule that accepts the prefix, or none.
C8_AiInstructionsOnlyByName ==
    (ClassifyDone /\ ~probe.result.isNull) =>
        /\ probe.result.suggestedCategory = "aiInstructions" =>
              probe.result.reasons = <<"filename match">>
        /\ (NameRules = {} /\ HeaderRules # HeaderRulesNotAI) =>
              probe.result.suggestedCategory =
                  IF HeaderRulesNotAI = {} THEN Null
                  ELSE probe.cfg.patterns[Least(HeaderRulesNotAI)].key

\* C8 witness: content that starts like an AI instruction file and also
\* matches the guides rule has been classified as guides by content.
C8_Witness ==
    /\ ClassifyDone
    /\ NameRules = {}
    /\ HeaderRules # HeaderRulesNotAI
    /\ probe.result.suggestedCategory = "guides"
    /\ probe.result.reasons = <<"content match">>

\* C9: a document with the same path and the same first 200 characters of
\* content gets the same category, confidence and reasons, whatever follows
\* character 200.
C9_OnlyFirst200Characters ==
    ClassifyDone =>
        \A other \in ProbeContents :
            First200(other) = First200(probe.content) =>
                LET r == classify(probe.cfg, probe.filePath, other, probe.impl) IN
                /\ r.isNull = probe.result.isNull
                /\ r.suggestedCategory = probe.result.suggestedCategory
                /\ r.confidence = probe.result.confidence
                /\ r.reasons = probe.result.reasons

\* C9 witness: a document classified by content, longer than 200 characters,
\* for which another content with the same first 200 characters exists.
C9_Witness ==
    /\ ClassifyDone
    /\ Len(probe.content) > 200
    /\ probe.result.reasons = <<"content match">>
    /\ \E other \in ProbeContents :
          other # probe.content /\ First200(other) = First200(probe.content)

(***************************************************************************)
(* Claims about resolveDestination and missing destinations.               *)
(***************************************************************************)
ResolveDone == probe.fn = "resolveDestination" /\ probe.done

\* the value a template segment stands for: the path variable of a
\* placeholder, the segment itself otherwise
SegmentValue(cfg, seg) ==
    IF seg \in Placeholders
    THEN GetKey(cfg.structure, Substring(seg, 1, Len(seg) - 1))
    ELSE seg

\* all placeholders of a template replaced simultaneously
RECURSIVE ReplacedSimultaneously(_, _)
ReplacedSimultaneously(cfg, segs) ==
    IF segs = <<>> THEN ""
    ELSE SegmentValue(cfg, Head(segs)) \o ReplacedSimultaneously(cfg, Tail(segs))

\* C11: resolveDestination replaces every occurrence of every known
\* placeholder: the result holds no known placeholder and equals the template
\* with all placeholders replaced simultaneously.
C11_EveryOccurrenceReplaced ==
    ResolveDone =>
        /\ \A p \in Placeholders : ~Includes(probe.result, p)
        /\ probe.result = ReplacedSimultaneously(probe.cfg, probe.segments)

\* the category of the rule that classifies the probed document: the first
\* rule accepting its name, else the first rule other than aiInstructions
\* accepting its header, else none
ProbeCategory ==
    IF NameRules # {} THEN probe.cfg.patterns[Least(NameRules)].key
    ELSE IF HeaderRulesNotAI # {} THEN probe.cfg.patterns[Least(HeaderRulesNotAI)].key
    ELSE Null

\* the probed document is classified into a category that has a pattern but
\* no entry in destinations
MissingDestination ==
    /\ ClassifyDone
    /\ ~InProtectedSet(probe.cfg, probe.filePath)
    /\ ProbeCategory # Null
    /\ ~HasKey(probe.cfg.destinations, ProbeCategory)

\* C12: for a category with a pattern but no destination, classification
\* completes without an error with the path under the root template, and the
\* placement check compares the current directory with the root template.
C12_MissingDestinationUsesRoot ==
    MissingDestination =>
        /\ ~probe.result.isNull
        /\ probe.result.error = Null
        /\ probe.result.suggestedCategory = ProbeCategory
        /\ probe.result.suggestedPath =
              resolveDestination(probe.cfg, "{root}") \o ProbeName \o ".md"
        /\ isCorrectlyPlaced(probe.cfg, probe.result, probe.impl) =
              placedDirs(probe.result.currentDir, resolveDestination(probe.cfg, "{root}"))

(***************************************************************************)
(* Claims about the AI path.                                               *)
(***************************************************************************)
EnhanceDone == probe.fn = "analyzeFileContentWithAI" /\ probe.done

\* category none exactly when confidence 0
NoneIffZero(analysis) == Falsy(analysis.suggestedCategory) <=> analysis.confidence = 0

\* C13: with the filename and content confidences configured above 0, every
\* classification result, from the patterns and after the AI merge, has
\* category none exactly when its confidence is 0.
C13_CategoryNoneIffConfidenceZero ==
    ( /\ EnhanceDone
      /\ GetKey(probe.cfg.thresholds, "filename") > 0
      /\ GetKey(probe.cfg.thresholds, "content") > 0 ) =>
        /\ ~probe.analysis.isNull => NoneIffZero(probe.analysis)
        /\ ~probe.result.isNull => NoneIffZero(probe.result)

MergeDone == probe.fn = "mergeAnalysis" /\ probe.done

\* C14: when the AI confidence is strictly greater than the existing
\* confidence, the merged result has the AI category and the AI confidence,
\* and its reasons are the AI-tagged reason followed by the existing reasons
\* in their order.
C14_AdoptsMoreConfidentAI ==
    (MergeDone /\ probe.aiResult.confidence > probe.existingAnalysis.confidence) =>
        /\ probe.result.category = probe.aiResult.category
        /\ probe.result.confidence = probe.aiResult.confidence
        /\ probe.result.reasons =
              <<"AI: " \o probe.aiResult.reason>> \o probe.existingAnalysis.reasons

\* C14 witness: existing confidence 0.6 with two reasons, an AI result of
\* confidence 0.9 for another category, merged.
C14_Witness ==
    /\ MergeDone
    /\ probe.existingAnalysis.confidence = Pct(60)
    /\ Len(probe.existingAnalysis.reasons) = 2
    /\ probe.aiResult.confidence = Pct(90)
    /\ probe.aiResult.category # probe.existingAnalysis.category
    /\ probe.result.category = probe.aiResult.category

\* the AI is not more confident and names another category than the existing
\* one (which may be none)
Disagreement ==
    /\ MergeDone
    /\ probe.aiResult.confidence <= probe.existingAnalysis.confidence
    /\ probe.aiResult.category # probe.existingAnalysis.category

\* C15: on a disagreement with an AI that is not more confident, the merged
\* category and confidence are the existing ones, also when the existing
\* category is none, and the reasons are the existing reasons followed by one
\* reason naming the AI's category and confidence.
C15_DisagreementKeepsExisting ==
    Disagreement =>
        /\ probe.result.category = probe.existingAnalysis.category
        /\ probe.result.category # probe.aiResult.category
        /\ probe.result.confidence = probe.existingAnalysis.confidence
        /\ probe.result.reasons =
              Append(probe.existingAnalysis.reasons,
                     "AI suggested " \o probe.aiResult.category \o " (" \o
                     NatToString((probe.aiResult.confidence + 50) \div 100) \o "%)")

\* the AI names the existing category and is not more confident
Confirmation ==
    /\ MergeDone
    /\ probe.aiResult.category = probe.existingAnalysis.category
    /\ probe.aiResult.confidence <= probe.existingAnalysis.confidence

\* min(1.0, existing confidence + 0.1) in decimal arithmetic
DecimalBoost(confidence) == Min(Pct(100), confidence + Pct(10))

\* C16 as stated: on a confirmation the merged category is unchanged and the
\* merged confidence equals min(1.0, existing confidence + 0.1), never above
\* 1.0 and never below the existing confidence.
C16_BoostIsDecimalSum ==
    Confirmation =>
        /\ probe.result.category = probe.existingAnalysis.category
        /\ probe.result.confidence = DecimalBoost(probe.existingAnalysis.confidence)
        /\ probe.result.confidence <= Pct(100)
        /\ probe.result.confidence >= probe.existingAnalysis.confidence

\* C16 as amended: on a confirmation the merged category is unchanged and the
\* merged confidence is the double sum existing + 0.1 capped at 1.0, which is
\* min(1.0, existing + 0.1) up to one unit in the last place (0.7 gives
\* 0.7999999999999999, exact for 0.5 and 0.9); it is never above 1.0 and never
\* below the existing confidence, and one reason 'AI confirmed: ...' is
\* appended.
C16_BoostIsDoubleSum ==
    Confirmation =>
        /\ probe.result.category = probe.existingAnalysis.category
        /\ probe.result.confidence - DecimalBoost(probe.existingAnalysis.confidence)
              \in {-1, 0, 1}
        /\ probe.existingAnalysis.confidence \in {Pct(50), Pct(90)} =>
              probe.result.confidence = DecimalBoost(probe.existingAnalysis.confidence)
        /\ probe.existingAnalysis.confidence = Pct(70) =>
              probe.result.confidence = Pct(80) - 1
        /\ probe.result.confidence <= Pct(100)
        /\ probe.result.confidence >= probe.existingAnalysis.confidence
        /\ probe.result.reasons =
              Append(probe.existingAnalysis.reasons,
                     "AI confirmed: " \o probe.aiResult.reason)

\* C16 witness: an existing confidence of 0.7 confirmed by the AI, merged to
\* just below 0.8.
C16_Witness ==
    /\ Confirmation
    /\ probe.existingAnalysis.confidence = Pct(70)
    /\ probe.result.confidence = Pct(80) - 1

\* C17: the external classifier is called for a document, at most once, only
\* if AI enhancement is enabled and the pattern-based confidence is strictly
\* below ai.fallbackThreshold; a filename match under the default thresholds,
\* a protected document and an unreadable document are never sent.
C17_CalledOnlyBelowThreshold ==
    EnhanceDone =>
        /\ Len(probe.requests) <= 1
        /\ probe.requests # <<>> =>
              /\ GetKey(probe.cfg.ai, "enabled")
              /\ ~probe.analysis.isNull
              /\ probe.analysis.confidence < GetKey(probe.cfg.ai, "fallbackThreshold")
              /\ probe.requests[1].filePath = probe.doc.path
        /\ ( /\ ~probe.analysis.isNull
             /\ probe.analysis.reasons = <<"filename match">>
             /\ GetKey(probe.cfg.thresholds, "filename") = Pct(90)
             /\ GetKey(probe.cfg.ai, "fallbackThreshold") = Pct(80) ) =>
              probe.requests = <<>>
        /\ InProtectedSet(probe.cfg, probe.doc.path) => probe.requests = <<>>
        /\ ~probe.doc.readable => probe.requests = <<>>

\* C17 witness: a document classified by its content with confidence 0.5 has
\* been sent to the external classifier.
C17_Witness ==
    /\ EnhanceDone
    /\ probe.requests # <<>>
    /\ probe.analysis.confidence = Pct(50)
    /\ probe.analysis.reasons = <<"content match">>

InLoop == probe.fn = "generateSuggestionsWithAI"

\* the answer is no usable result: no tool_use block, a failed request, or
\* no request at all
Unusable(answer) == answer.kind \in {"none", "error", "unsent"}

\* the enumerated documents whose analysis failed with an error
RECURSIVE PatternErrors(_)
PatternErrors(analyses) ==
    IF analyses = <<>> THEN <<>>
    ELSE (IF Head(analyses).error # Null THEN <<Head(analyses).error>> ELSE <<>>)
            \o PatternErrors(Tail(analyses))

\* C18: a document whose external call failed or returned nothing keeps the
\* category, confidence and suggested path of its pattern-based analysis and
\* has aiEnhanced unset; no error of the call reaches the run, which goes on
\* to the next document; aiEnhanced is set only for a document whose call
\* returned a usable result.
C18_FailedCallKeepsPatternResult ==
    InLoop =>
        /\ Len(probe.acc.analyses) = probe.i - 1
        /\ Len(probe.answers) = probe.i - 1
        /\ probe.pc = "awaiting" => probe.i <= Len(probe.files)
        /\ probe.acc.errors = PatternErrors(SubSeq(probe.patterns, 1, probe.i - 1))
        /\ \A k \in 1..Len(probe.acc.analyses) :
              /\ Unusable(probe.answers[k]) =>
                    /\ probe.acc.analyses[k].suggestedCategory =
                          probe.patterns[k].suggestedCategory
                    /\ probe.acc.analyses[k].confidence = probe.patterns[k].confidence
                    /\ probe.acc.analyses[k].suggestedPath = probe.patterns[k].suggestedPath
                    /\ ~probe.acc.analyses[k].aiEnhanced
              /\ probe.acc.analyses[k].aiEnhanced => ~Unusable(probe.answers[k])

\* C18 witness: the call for a document with a pattern category failed, and
\* a later document has been processed.
C18_Witness ==
    /\ InLoop
    /\ \E k \in 1..Len(probe.answers) :
          /\ probe.answers[k].kind = "error"
          /\ ~Falsy(probe.patterns[k].suggestedCategory)
          /\ Len(probe.acc.analyses) > k

\* the position of a document in the enumeration
FilePosition(path) == CHOOSE i \in 1..Len(probe.files) : probe.files[i] = path

\* C19: in generateSuggestionsWithAI at most one request to the external
\* classifier is in flight; it belongs to the current document, every earlier
\* document is finished, no document is analysed while a request is in
\* flight, and the suggestions stand in the enumeration order of their
\* documents.
C19_OneCallOutstanding ==
    InLoop =>
        /\ Len(probe.outstanding) <= 1
        /\ probe.outstanding # <<>> =>
              /\ probe.pc = "awaiting"
              /\ probe.outstanding[1].filePath = probe.files[probe.i]
              /\ Len(probe.acc.analyses) = probe.i - 1
        /\ probe.pc = "next" => probe.outstanding = <<>>
        /\ \A a, b \in 1..Len(probe.acc.suggestions) :
              a < b => FilePosition(probe.acc.suggestions[a].current)
                          < FilePosition(probe.acc.suggestions[b].current)

\* C19 witness: a request is in flight after two suggestions were appended,
\* one of them for a document that the AI classified.
C19_Witness ==
    /\ InLoop
    /\ probe.pc = "awaiting"
    /\ Len(probe.outstanding) = 1
    /\ Len(probe.acc.suggestions) >= 2
    /\ \E k \in 1..Len(probe.acc.suggestions) : probe.acc.suggestions[k].aiEnhanced

(***************************************************************************)
(* Claims about the lifecycle of the suggestion list.                      *)
(***************************************************************************)
\* C20: after any call of generateSuggestions or generateSuggestionsWithAI
\* on an engine instance, a second call included, the suggestion list holds
\* exactly the suggestions of that run and its length is the returned
\* misplaced count.
C20_SuggestionsFreshEachRun ==
    lastRun.called =>
        /\ suggestions = lastRun.appended
        /\ Len(suggestions) = lastRun.stats.misplaced

(***************************************************************************)
(* Claims about errors, destinations and the configuration of a run.       *)
(***************************************************************************)
\* walkDir reaches the i-th entry of the directory: the entry is not
\* excluded, no stat of an earlier entry of its directory has failed, and its
\* directory is the root or a reached directory that can be listed
RECURSIVE Reached(_, _, _)
Reached(fsys, cfg, i) ==
    LET dir == PathDirname(fsys[i].path) IN
    /\ ~isExcluded(cfg, fsys[i].path)
    /\ \A j \in 1..(i - 1) :
          (PathDirname(fsys[j].path) = dir /\ ~isExcluded(cfg, fsys[j].path)) =>
              fsys[j].statOk
    /\ \/ dir = "."
       \/ \E k \in 1..Len(fsys) :
             /\ fsys[k].path = dir
             /\ fsys[k].kind = "dir"
             /\ fsys[k].statOk
             /\ fsys[k].listable
             /\ Reached(fsys, cfg, k)

\* the last Len(tail) entries of a list
EndsWithSeq(list, tail) ==
    /\ Len(tail) <= Len(list)
    /\ SubSeq(list, Len(list) - Len(tail) + 1, Len(list)) = tail

\* C21: a run always returns with every enumerated document classified; an
\* unreadable directory and an unreadable document each leave an entry in
\* the error list, the unreadable document yields no suggestion, and every
\* other enumerated document is classified and, if misplaced with enough
\* confidence, suggested.
C21_UnreadableNeverAborts ==
    lastRun.called =>
        /\ Len(lastRun.analyses) = Len(lastRun.files)
        /\ EndsWithSeq(errors, lastRun.errors)
        /\ \A i \in 1..Len(fs) :
              (fs[i].kind = "dir" /\ fs[i].statOk /\ ~fs[i].listable
                  /\ Reached(fs, config, i)) =>
                  SeqIncludes(lastRun.errors, "Error reading directory " \o fs[i].path)
        /\ \A k \in 1..Len(lastRun.files) :
              LET i == EntryIndex(fs, lastRun.files[k]) IN
              IF ~fs[i].readable
              THEN /\ lastRun.analyses[k].isNull
                   /\ SeqIncludes(lastRun.errors, "Error analyzing " \o lastRun.files[k])
                   /\ \A s \in 1..Len(lastRun.appended) :
                         lastRun.appended[s].current # lastRun.files[k]
              ELSE lastRun.analyses[k].isNull <=> InProtectedSet(config, lastRun.files[k])
        /\ Len(lastRun.appended) = Len(Misplaced(lastRun))
        /\ \A s \in 1..Len(lastRun.appended) :
              lastRun.appended[s].current = lastRun.files[Misplaced(lastRun)[s]]

\* C21 witness: a run over a directory with an unreadable directory and an
\* unreadable document has recorded both and has suggested another document.
C21_Witness ==
    /\ lastRun.called
    /\ \E i \in 1..Len(fs) : fs[i].kind = "dir" /\ ~fs[i].listable
    /\ \E k \in 1..Len(lastRun.files) : ~fs[EntryIndex(fs, lastRun.files[k])].readable
    /\ Len(lastRun.errors) >= 2
    /\ Len(lastRun.appended) > 0

\* the entries of the error list that are neither a directory-read error nor
\* a document-read error
MoveErrors ==
    SelectSeq(errors, LAMBDA e : /\ ~StartsWith(e, "Error reading directory ")
                                 /\ ~StartsWith(e, "Error analyzing "))

\* C22: after applyMoves the error list has one entry for each rename that
\* failed, next to the directory-read and document-read errors of the runs.
C22_MoveFailuresInErrorList ==
    lastApply.called =>
        /\ Len(MoveErrors) >= lastApply.failed
        /\ \A k \in 1..Len(lastApply.attempts) :
              ~lastApply.attempts[k].ok =>
                  \E e \in 1..Len(errors) : Includes(errors[e], lastApply.attempts[k].from)

\* the documented priority of the configuration sources
DocumentedPriority == <<".doc-organizer.json", ".doc-organizer.js", "package.json">>

\* a source that holds a configuration
Usable(path) ==
    LET s == GetKey(probe.sources, path) IN s.exists /\ s.valid /\ s.hasConfig

\* C23: loadConfiguration returns the configuration of the first source, in
\* the order .doc-organizer.json, .doc-organizer.js, package.json, that holds
\* one, and the empty configuration when no source holds one.
C23_DocumentedPriorityOrder ==
    (probe.fn = "loadConfiguration" /\ probe.done) =>
        IF \E k \in 1..3 : Usable(DocumentedPriority[k])
        THEN LET first == Least({k \in 1..3 : Usable(DocumentedPriority[k])}) IN
             /\ probe.result.path = DocumentedPriority[first]
             /\ probe.result.config = GetKey(probe.sources, DocumentedPriority[first]).config
        ELSE probe.result = NoConfiguration

(***************************************************************************)
(* Claims about the apply_organization tool.                               *)
(***************************************************************************)
\* C24: a call of apply_organization with dryRun true creates no directory
\* and renames no file, and reports every candidate move with success true;
\* the tool renames files only when dryRun is false or absent.
C24_DryRunChangesNothing ==
    [][ lastTool'.called =>
          /\ lastTool'.args.dryRun =>
                /\ fs' = fs
                /\ renames' = renames
                /\ Len(lastTool'.moves) = Len(lastTool'.candidates)
                /\ \A k \in 1..Len(lastTool'.moves) :
                      /\ lastTool'.moves[k].success
                      /\ lastTool'.moves[k].from = lastTool'.candidates[k].current
                      /\ lastTool'.moves[k].to = lastTool'.candidates[k].suggested
                /\ lastTool'.failed = 0
          /\ fs' # fs => ~lastTool'.args.dryRun ]_vars

\* C24 witness: a dry run has reported candidate moves and nothing has been
\* renamed.
C24_Witness ==
    /\ lastTool.called
    /\ lastTool.args.dryRun
    /\ Len(lastTool.moves) > 0
    /\ renames = <<>>

(***************************************************************************)
(* Claims about the command line.                                          *)
(***************************************************************************)
\* the command line invoked with 'mcp' (and without a help flag), past the
\* start of its script
McpMode ==
    /\ probe.fn = "cli"
    /\ probe.entry = "cli"
    /\ "mcp" \in probe.args
    /\ ~("--help" \in probe.args \/ "-h" \in probe.args)
    /\ probe.pc # "start"

\* C25: invoked with 'mcp', the command line starts the server and the
\* process stays alive: it does not exit, and certainly not before the
\* server has connected.
C25_McpServerStaysAlive ==
    McpMode =>
        /\ probe.server \in {"connecting", "connected"}
        /\ probe.exited => probe.server = "connected"
        /\ ~probe.exited

(***************************************************************************)
(* Claims about the destinations of a run.                                 *)
(***************************************************************************)
\* C26: within one run no two suggestions have the same suggested path, no
\* suggested path is the path of another enumerated document, and applyMoves
\* never renames two documents to the same path.
C26_DestinationsDistinct ==
    /\ lastRun.called =>
          /\ \A s, t \in 1..Len(lastRun.appended) :
                s # t => ResolvePath(lastRun.appended[s].suggested)
                            # ResolvePath(lastRun.appended[t].suggested)
          /\ \A s \in 1..Len(lastRun.appended), k \in 1..Len(lastRun.files) :
                lastRun.files[k] # lastRun.appended[s].current =>
                    ResolvePath(lastRun.appended[s].suggested) # ResolvePath(lastRun.files[k])
    /\ lastApply.called =>
          \A a, b \in 1..Len(lastApply.attempts) :
              (a # b /\ lastApply.attempts[a].ok /\ lastApply.attempts[b].ok) =>
                  ResolvePath(lastApply.attempts[a].to) # ResolvePath(lastApply.attempts[b].to)

\* the resolved destination of a category, as generateSuggestion and
\* isCorrectlyPlaced compute it
ExpectedDir(cfg, category) ==
    resolveDestination(cfg, destinationTemplate(cfg, category, "ts"))

\* C27: every suggestion of a pattern-only run keeps the document's base name, and the
\* directory of its suggested path equals, under the normalisation of
\* isCorrectlyPlaced, the resolved destination of its category.
C27_SuggestedPathInExpectedDir ==
    (lastRun.called /\ lastRun.by = "generateSuggestions") =>
        \A s \in 1..Len(lastRun.appended) :
            /\ PathBasename(lastRun.appended[s].suggested)
                  = PathBasename(lastRun.appended[s].current)
            /\ placedDirs(PathDirname(lastRun.appended[s].suggested),
                          ExpectedDir(config, lastRun.appended[s].category))

(***************************************************************************)
(* Claims about the configuration during a run.                            *)
(***************************************************************************)
\* C30: after construction and any number of runs, the pattern of every key
\* the user supplied is still the user's pattern.
C30_UserPatternsKept ==
    probe.fn = "constructor" =>
        \A i \in 1..Len(probe.userConfig.patterns) :
            /\ HasKey(config.patterns, probe.userConfig.patterns[i].key)
            /\ GetKey(config.patterns, probe.userConfig.patterns[i].key)
                  = probe.userConfig.patterns[i].value

(***************************************************************************)
(* Claims about the suggested path in AI mode.                             *)
(***************************************************************************)
\* C28: every suggestion of a run in AI mode has a suggested path, and it
\* is the resolved destination of its final category followed by the file
\* name.
C28_PathFollowsMergedCategory ==
    (lastRun.called /\ lastRun.by = "generateSuggestionsWithAI") =>
        \A s \in 1..Len(lastRun.appended) :
            /\ lastRun.appended[s].suggested # Null
            /\ lastRun.appended[s].suggested
                  = ExpectedDir(config, lastRun.appended[s].category)
                       \o PathBasename(lastRun.appended[s].current)

(***************************************************************************)
(* Claims about the enumeration of documents.                              *)
(***************************************************************************)
\* the directory of the i-th entry is the root, or a directory whose stat
\* succeeds and that can be listed, below such directories only
RECURSIVE AncestorsListable(_, _)
AncestorsListable(fsys, i) ==
    LET dir == PathDirname(fsys[i].path) IN
    \/ dir = "."
    \/ \E k \in 1..Len(fsys) :
          /\ fsys[k].path = dir
          /\ fsys[k].kind = "dir"
          /\ fsys[k].statOk
          /\ fsys[k].listable
          /\ AncestorsListable(fsys, k)

\* C29: a run enumerates every '.md' file whose path contains no excluded
\* substring, whose own stat succeeds and whose ancestor directories can be
\* listed, whatever happens to the other entries of its directory.
C29_SiblingFailureIsLocal ==
    lastRun.called =>
        \A i \in 1..Len(fs) :
            (/\ fs[i].kind = "file"
             /\ PathExtname(fs[i].path) = ".md"
             /\ ~isExcluded(config, fs[i].path)
             /\ fs[i].statOk
             /\ AncestorsListable(fs, i)) =>
                SeqIncludes(lastRun.files, fs[i].path)

====
